---------------------------- MODULE Spec2Model ----------------------------
(***************************************************************************)
(* ESGBuddy compliance decision engine (backend/app): rule validation,     *)
(* the three-stage reasoning pipeline, decision fusion, the document       *)
(* evaluation loop, the in-memory report store and manual overrides.       *)
(*                                                                         *)
(* Conventions                                                             *)
(*  - Python floats are modelled as exact rationals <<n, d>> in lowest     *)
(*    terms with d > 0, so equality of values is equality of pairs.        *)
(*  - Python str is modelled as a sequence of one-character strings.       *)
(*  - Python None is the record None; values that may be None are tagged  *)
(*    records (Str, List, ...), so that they compare with None.            *)
(***************************************************************************)
EXTENDS Integers, Sequences, FiniteSets, TLC

None == [t |-> "none"]

(***************************************************************************)
(* Exact rational arithmetic standing for Python float arithmetic.         *)
(***************************************************************************)
Abs(x) == IF x < 0 THEN -x ELSE x

RECURSIVE GCD(_, _)
GCD(a, b) == IF b = 0 THEN a ELSE GCD(b, a % b)

Rat(n, d) ==
    LET g == GCD(Abs(n), Abs(d))
        s == IF d < 0 THEN -1 ELSE 1
    IN  <<(s * n) \div g, (s * d) \div g>>

\* The operands are bound to their values once (x, y), so that an operand
\* that is itself a long computation is not computed again at every use.
RInt(n)    == <<n, 1>>
RAdd(a, b) ==
    CHOOSE r \in {Rat(x[1] * y[2] + y[1] * x[2], x[2] * y[2]) : x \in {a}, y \in {b}} : TRUE
RSub(a, b) ==
    CHOOSE r \in {Rat(x[1] * y[2] - y[1] * x[2], x[2] * y[2]) : x \in {a}, y \in {b}} : TRUE
RDivInt(a, k) == CHOOSE r \in {Rat(x[1], x[2] * k) : x \in {a}} : TRUE
RLeq(a, b) == \E x \in {a}, y \in {b} : x[1] * y[2] <= y[1] * x[2]
RMin(a, b) == CHOOSE r \in {IF RLeq(x, y) THEN x ELSE y : x \in {a}, y \in {b}} : TRUE
RMax(a, b) == CHOOSE r \in {IF RLeq(y, x) THEN x ELSE y : x \in {a}, y \in {b}} : TRUE

RMul(a, b) ==
    CHOOSE r \in {Rat(x[1] * y[1], x[2] * y[2]) : x \in {a}, y \in {b}} : TRUE
RDiv(a, b) ==
    CHOOSE r \in {Rat(x[1] * y[2], x[2] * y[1]) : x \in {a}, y \in {b}} : TRUE
RAbs(a) == CHOOSE r \in {<<Abs(x[1]), x[2]>> : x \in {a}} : TRUE

RZero == Rat(0, 1)
ROne  == Rat(1, 1)

\* sum(s) of a list of floats
RECURSIVE RSum(_)
RSum(s) == IF s = <<>> THEN RZero ELSE RAdd(s[1], RSum(Tail(s)))

(***************************************************************************)
(* Characters and the character classes of Python's re module.             *)
(***************************************************************************)
DigitSeq == <<"0", "1", "2", "3", "4", "5", "6", "7", "8", "9">>
UpperSeq == <<"A", "B", "C", "D", "E", "F", "G", "H", "I", "J", "K", "L", "M",
              "N", "O", "P", "Q", "R", "S", "T", "U", "V", "W", "X", "Y", "Z">>
LowerSeq == <<"a", "b", "c", "d", "e", "f", "g", "h", "i", "j", "k", "l", "m",
              "n", "o", "p", "q", "r", "s", "t", "u", "v", "w", "x", "y", "z">>

Range(s) == {s[i] : i \in DOMAIN s}

Digits    == Range(DigitSeq)                      \* \d, [0-9]
WordChars == Digits \cup Range(UpperSeq) \cup Range(LowerSeq) \cup {"_"}   \* \w
Spaces    == {" "}                                \* \s (the texts hold no tab or newline)

IndexIn(s, c) == CHOOSE i \in DOMAIN s : s[i] = c
DigitVal(c)   == IndexIn(DigitSeq, c) - 1

\* str.lower()
LowerChar(c) == IF c \in Range(UpperSeq) THEN LowerSeq[IndexIn(UpperSeq, c)] ELSE c
Lower(t)     == [i \in DOMAIN t |-> LowerChar(t[i])]

(***************************************************************************)
(* A backtracking matcher with the semantics of re for the constructs the  *)
(* validator's patterns use.  A pattern is a sequence of items:            *)
(*   [k |-> "cls", set, lo, hi]   greedy repetition {lo,hi} of a class     *)
(*   [k |-> "wb"]                 \b                                       *)
(*   [k |-> "opt", sub]           (?: sub )?   (greedy)                    *)
(*   [k |-> "alt", alts]          (a|b): literals tried left to right      *)
(* MatchFrom gives the position after the match re finds at p, or -1.      *)
(***************************************************************************)
Unbounded == 1000000

Cls(S, lo, hi) == [k |-> "cls", set |-> S, lo |-> lo, hi |-> hi]
One(S)         == Cls(S, 1, 1)
Lit(t)         == [i \in DOMAIN t |-> One({t[i]})]
WB             == [k |-> "wb"]
Opt(sub)       == [k |-> "opt", sub |-> sub]
Alt(alts)      == [k |-> "alt", alts |-> alts]

IsWordAt(t, p) == p >= 1 /\ p <= Len(t) /\ t[p] \in WordChars
WordBoundary(t, p) == IsWordAt(t, p - 1) # IsWordAt(t, p)

RECURSIVE RunLen(_, _, _, _)
RunLen(S, t, p, hi) ==
    IF hi = 0 \/ p > Len(t) \/ t[p] \notin S THEN 0
    ELSE 1 + RunLen(S, t, p + 1, hi - 1)

HasPrefixAt(t, p, lit) ==
    /\ p + Len(lit) - 1 <= Len(t)
    /\ \A i \in DOMAIN lit : t[p + i - 1] = lit[i]

RECURSIVE MatchFrom(_, _, _), TryCounts(_, _, _, _, _), TryAlts(_, _, _, _)
MatchFrom(items, t, p) ==
    IF items = <<>> THEN p
    ELSE LET it   == Head(items)
             rest == Tail(items)
         IN  CASE it.k = "cls" ->
                    LET n == RunLen(it.set, t, p, it.hi)
                    IN  IF n < it.lo THEN -1 ELSE TryCounts(rest, t, p, n, it.lo)
               [] it.k = "wb" ->
                    IF WordBoundary(t, p) THEN MatchFrom(rest, t, p) ELSE -1
               [] it.k = "opt" ->
                    LET r == MatchFrom(it.sub \o rest, t, p)
                    IN  IF r # -1 THEN r ELSE MatchFrom(rest, t, p)
               [] it.k = "alt" -> TryAlts(it.alts, rest, t, p)

TryCounts(rest, t, p, c, lo) ==
    IF c < lo THEN -1
    ELSE LET r == MatchFrom(rest, t, p + c)
         IN  IF r # -1 THEN r ELSE TryCounts(rest, t, p, c - 1, lo)

TryAlts(alts, rest, t, p) ==
    IF alts = <<>> THEN -1
    ELSE LET r == IF HasPrefixAt(t, p, Head(alts))
                  THEN MatchFrom(rest, t, p + Len(Head(alts)))
                  ELSE -1
         IN  IF r # -1 THEN r ELSE TryAlts(Tail(alts), rest, t, p)

\* The spans <<start, end>> (end exclusive) of re.finditer: leftmost,
\* non-overlapping.  None of the patterns below matches the empty string.
RECURSIVE FindSpans(_, _, _)
FindSpans(items, t, p) ==
    IF p > Len(t) THEN <<>>
    ELSE LET e == MatchFrom(items, t, p)
         IN  IF e = -1 \/ e = p THEN FindSpans(items, t, p + 1)
             ELSE <<(<<p, e>>)>> \o FindSpans(items, t, e)

\* re.search(pattern, text) is not None
Search(items, t) == \E p \in 1..Len(t) : MatchFrom(items, t, p) # -1

\* needle in hay (str containment); the empty needle is contained in any text.
Contains(hay, needle) ==
    \/ needle = <<>>
    \/ \E p \in 1..Len(hay) : HasPrefixAt(hay, p, needle)

(***************************************************************************)
(* float(num_str) and int(y) for the strings the patterns can match.       *)
(***************************************************************************)
RECURSIVE DigitsToNat(_)
DigitsToNat(ds) ==
    IF ds = <<>> THEN 0
    ELSE 10 * DigitsToNat(SubSeq(ds, 1, Len(ds) - 1)) + DigitVal(ds[Len(ds)])

RECURSIVE Pow10(_)
Pow10(k) == IF k = 0 THEN 1 ELSE 10 * Pow10(k - 1)

\* float(s) for s of the form [-+]?D*(.D+)?([eE][-+]?D+)?, as a rational.
ParseFloat(s) ==
    LET hasSign == s[1] \in {"-", "+"}
        sgn     == IF s[1] = "-" THEN -1 ELSE 1
        p0      == IF hasSign THEN 2 ELSE 1
        n1      == RunLen(Digits, s, p0, Unbounded)
        hasDot  == p0 + n1 <= Len(s) /\ s[p0 + n1] = "."
        p2      == IF hasDot THEN p0 + n1 + 1 ELSE p0 + n1
        n2      == IF hasDot THEN RunLen(Digits, s, p2, Unbounded) ELSE 0
        pe      == p2 + n2
        hasExp  == pe <= Len(s) /\ s[pe] \in {"e", "E"}
        eSigned == hasExp /\ s[pe + 1] \in {"-", "+"}
        eSgn    == IF hasExp /\ s[pe + 1] = "-" THEN -1 ELSE 1
        eStart  == IF eSigned THEN pe + 2 ELSE pe + 1
        ex      == IF hasExp THEN eSgn * DigitsToNat(SubSeq(s, eStart, Len(s))) ELSE 0
        mant    == DigitsToNat(SubSeq(s, p0, p0 + n1 - 1) \o SubSeq(s, p2, p2 + n2 - 1))
        k       == ex - n2
    IN  IF k >= 0 THEN Rat(sgn * mant * Pow10(k), 1) ELSE Rat(sgn * mant, Pow10(-k))

(***************************************************************************)
(* Rule parameters: a Python dict, modelled as a function from parameter   *)
(* names to tagged values.                                                 *)
(***************************************************************************)
Num(v)  == [t |-> "num", v |-> v]       \* an int
Str(s)  == [t |-> "str", v |-> s]       \* a str
List(l) == [t |-> "list", v |-> l]      \* a list of str (character sequences)
Bool(b) == [t |-> "bool", v |-> b]
NegInf  == [t |-> "ninf"]               \* float('-inf')
PosInf  == [t |-> "pinf"]               \* float('inf')

\* dict.get(key, default)
Get(params, key, default) == IF key \in DOMAIN params THEN params[key] ELSE default

IsNumber(x) == x.t \in {"num", "ninf", "pinf"}

\* bound <= value and value <= bound for a numeric parameter and a rational
ParamLeqVal(b, v) ==
    CASE b.t = "ninf" -> TRUE
      [] b.t = "pinf" -> FALSE
      [] b.t = "num"  -> RLeq(RInt(b.v), v)
ValLeqParam(v, b) ==
    CASE b.t = "ninf" -> FALSE
      [] b.t = "pinf" -> TRUE
      [] b.t = "num"  -> RLeq(v, RInt(b.v))

(***************************************************************************)
(* RuleValidator.  A check gives a RuleValidationResult, or Raised(e) when *)
(* the Python code raises e.                                               *)
(***************************************************************************)
RuleValidationResult(rule_id, passed, message, triggered) ==
    [rule_id |-> rule_id, passed |-> passed, message |-> message,
     triggered |-> triggered]

Raised(e)    == [raised |-> e]
HasRaised(r) == "raised" \in DOMAIN r

\* numeric_pattern = r'[-+]?[0-9]*\.?[0-9]+(?:[eE][-+]?[0-9]+)?'
numeric_pattern ==
    << Cls({"-", "+"}, 0, 1), Cls(Digits, 0, Unbounded), Cls({"."}, 0, 1),
       Cls(Digits, 1, Unbounded),
       Opt(<< One({"e", "E"}), Cls({"-", "+"}, 0, 1), Cls(Digits, 1, Unbounded) >>) >>

\* re.findall for a pattern without groups: the matched substrings
FindAll(items, t) ==
    LET spans == FindSpans(items, t, 1)
    IN  [i \in DOMAIN spans |-> SubSeq(t, spans[i][1], spans[i][2] - 1)]

\* min_value <= num <= max_value raises TypeError when the bound that Python
\* evaluates is not a number; the second comparison runs only if the first holds.
InRangeRaises(lo, v, hi) ==
    \/ ~IsNumber(lo)
    \/ ParamLeqVal(lo, v) /\ ~IsNumber(hi)
InRange(lo, v, hi) == ParamLeqVal(lo, v) /\ ValLeqParam(v, hi)

\* the branches of _validate_numeric once the numbers are parsed
NumericVerdict(rule, nums, min_value, max_value) ==
    IF nums = <<>>
    THEN RuleValidationResult(rule.rule_id, FALSE, "No numeric values found in evidence", TRUE)
    ELSE IF \E i \in DOMAIN nums : InRangeRaises(min_value, nums[i], max_value)
    THEN Raised("TypeError")
    ELSE IF \E i \in DOMAIN nums : InRange(min_value, nums[i], max_value)
    THEN RuleValidationResult(rule.rule_id, TRUE, "Found valid numeric values", TRUE)
    ELSE RuleValidationResult(rule.rule_id, FALSE, "No numeric values within range", TRUE)

\* [float(n) for n in numbers]
ParseAll(numbers) == [i \in DOMAIN numbers |-> ParseFloat(numbers[i])]

\* a numeric rule that passes on any text
LenientNumeric(rule, text) ==
    RuleValidationResult(rule.rule_id, TRUE, "Found valid numeric values", TRUE)

_validate_numeric(rule, text) ==
    NumericVerdict(rule, ParseAll(FindAll(numeric_pattern, text)),
                   Get(rule.parameters, "min_value", NegInf),
                   Get(rule.parameters, "max_value", PosInf))

\* year_pattern = r'\b(19|20)\d{2}\b'
year_pattern ==
    << WB, Alt(<< <<"1", "9">>, <<"2", "0">> >>), Cls(Digits, 2, 2), WB >>

\* re.findall for year_pattern: the pattern has one capturing group, so
\* findall returns the text of that group, the two characters 19 or 20.
YearFindAll(t) ==
    LET spans == FindSpans(year_pattern, t, 1)
    IN  [i \in DOMAIN spans |-> SubSeq(t, spans[i][1], spans[i][1] + 1)]

\* datetime.now().year
CurrentYear == 2026

date_patterns ==
    << << WB, Cls(Digits, 1, 2), One({"/"}), Cls(Digits, 1, 2), One({"/"}), Cls(Digits, 2, 4), WB >>,
       << WB, Cls(Digits, 1, 2), One({"-"}), Cls(Digits, 1, 2), One({"-"}), Cls(Digits, 2, 4), WB >>,
       << WB, Cls(Digits, 4, 4), One({"-"}), Cls(Digits, 1, 2), One({"-"}), Cls(Digits, 1, 2), WB >> >>

period_keywords ==
    << <<"p", "e", "r", "i", "o", "d">>,
       <<"f", "i", "s", "c", "a", "l", " ", "y", "e", "a", "r">>,
       <<"q", "u", "a", "r", "t", "e", "r">>,
       <<"r", "e", "p", "o", "r", "t", "i", "n", "g", " ", "p", "e", "r", "i", "o", "d">> >>

\* the format_type == "year" branch once the years are found
YearVerdict(rule, years, min_year, max_year) ==
    IF years = <<>>
    THEN RuleValidationResult(rule.rule_id, FALSE, "No year references found in evidence", TRUE)
    ELSE IF \E i \in DOMAIN years :
               InRangeRaises(min_year, RInt(DigitsToNat(years[i])), max_year)
    THEN Raised("TypeError")
    ELSE IF \E i \in DOMAIN years :
               InRange(min_year, RInt(DigitsToNat(years[i])), max_year)
    THEN RuleValidationResult(rule.rule_id, TRUE, "Found valid years", TRUE)
    ELSE RuleValidationResult(rule.rule_id, FALSE, "No years within valid range", TRUE)

TemporalVerdict(rule, text, format_type) ==
    IF format_type = Str("year")
    THEN YearVerdict(rule, YearFindAll(text),
                     Get(rule.parameters, "min_year", Num(1900)),
                     Get(rule.parameters, "max_year", Num(CurrentYear)))
    ELSE IF format_type = Str("date")
    THEN IF \E i \in DOMAIN date_patterns : FindSpans(date_patterns[i], text, 1) # <<>>
         THEN RuleValidationResult(rule.rule_id, TRUE, "Found dates", TRUE)
         ELSE RuleValidationResult(rule.rule_id, FALSE, "No date references found", TRUE)
    ELSE IF \E i \in DOMAIN period_keywords : Contains(Lower(text), period_keywords[i])
         THEN RuleValidationResult(rule.rule_id, TRUE, "Time period reference found", TRUE)
         ELSE RuleValidationResult(rule.rule_id, FALSE, "No time period reference found", TRUE)

_validate_temporal(rule, text) ==
    TemporalVerdict(rule, text, Get(rule.parameters, "format", Str("year")))

\* bool(x) of a parameter value
Truthy(x) ==
    CASE x.t = "bool" -> x.v
      [] x.t = "list" -> x.v # <<>>
      [] x.t = "str"  -> Len(x.v) # 0
      [] x.t = "num"  -> x.v # 0
      [] OTHER        -> TRUE

\* what `for kw in x` iterates over: the items of a list, the characters of a str
Items(x) == IF x.t = "str" THEN [i \in DOMAIN x.v |-> << x.v[i] >>] ELSE x.v

\* found_keywords, as the number of keywords found
FoundKeywords(keywords, text_lower) ==
    Cardinality({i \in DOMAIN keywords : Contains(text_lower, Lower(keywords[i]))})

KeywordVerdict(rule, keywords, match_all, found) ==
    IF Truthy(match_all)
    THEN RuleValidationResult(rule.rule_id, found = Len(keywords),
                              "Found n/m required keywords", TRUE)
    ELSE RuleValidationResult(rule.rule_id, found > 0,
                              IF found > 0 THEN "Found keywords"
                              ELSE "No matching keywords found", TRUE)

KeywordCheck(rule, text, keywords) ==
    IF ~Truthy(keywords)
    THEN RuleValidationResult(rule.rule_id, FALSE, "No keywords specified in rule", FALSE)
    ELSE IF keywords.t \notin {"list", "str"}
    THEN Raised("TypeError")       \* the value is not iterable
    ELSE KeywordVerdict(rule, Items(keywords),
                        Get(rule.parameters, "match_all", Bool(FALSE)),
                        FoundKeywords(Items(keywords), Lower(text)))

_validate_keyword(rule, text) ==
    KeywordCheck(rule, text, Get(rule.parameters, "keywords", List(<<>>)))

\* field_pattern = rf'\b{re.escape(field.lower())}\s*[:=]'
field_pattern(field) ==
    << WB >> \o Lit(Lower(field)) \o << Cls(Spaces, 0, Unbounded), One({":", "="}) >>

\* found_fields, as the number of fields found
FoundFields(fields, text_lower) ==
    Cardinality({i \in DOMAIN fields : Search(field_pattern(fields[i]), text_lower)})

FieldVerdict(rule, all_found) ==
    RuleValidationResult(rule.rule_id, all_found,
                         IF all_found THEN "All required fields present"
                         ELSE "Missing required fields", TRUE)

FieldCheck(rule, text, fields) ==
    IF ~Truthy(fields)
    THEN RuleValidationResult(rule.rule_id, FALSE, "No fields specified in rule", FALSE)
    ELSE IF fields.t \notin {"list", "str"}
    THEN Raised("TypeError")       \* the value is not iterable
    ELSE FieldVerdict(rule, FoundFields(Items(fields), Lower(text)) = Len(Items(fields)))

_validate_field_presence(rule, text) ==
    FieldCheck(rule, text, Get(rule.parameters, "fields", List(<<>>)))

_validate_single_rule(rule, combined_text) ==
    CASE rule.rule_type = "numeric"        -> _validate_numeric(rule, combined_text)
      [] rule.rule_type = "temporal"       -> _validate_temporal(rule, combined_text)
      [] rule.rule_type = "keyword"        -> _validate_keyword(rule, combined_text)
      [] rule.rule_type = "field_presence" -> _validate_field_presence(rule, combined_text)
      [] OTHER -> RuleValidationResult(rule.rule_id, FALSE, "Unknown rule type", FALSE)

\* " ".join(texts)
RECURSIVE JoinSpace(_)
JoinSpace(texts) ==
    IF texts = <<>> THEN <<>>
    ELSE IF Len(texts) = 1 THEN texts[1]
    ELSE texts[1] \o <<" ">> \o JoinSpace(Tail(texts))

\* a loop body without the try: the exception is handed on
PassRuleError(rule, r) == r

\* the except branch around _validate_single_rule in validate_rules
CatchRuleError(rule, r) ==
    IF HasRaised(r)
    THEN RuleValidationResult(rule.rule_id, FALSE, "Rule validation error", FALSE)
    ELSE r

\* validate_rules(rules, evidence); evidence_texts are the texts e.text
validate_rules(rules, evidence_texts) ==
    [i \in DOMAIN rules |->
        CatchRuleError(rules[i],
                       _validate_single_rule(rules[i], JoinSpace(evidence_texts)))]

(***************************************************************************)
(* models.py: ComplianceStatus and the evaluation records.                 *)
(***************************************************************************)
SUPPORTED     == "supported"
PARTIAL       == "partial"
NOT_SUPPORTED == "not_supported"
INFERRED      == "inferred"
ComplianceStatus == {SUPPORTED, PARTIAL, NOT_SUPPORTED, INFERRED}

\* LLMEvaluation; reasoning_steps defaults to None and revised to False.
\* (reasoning, reflection and reflection_issues are carried through
\* unread by the engine and are left out.)
LLMEvaluation(status, confidence, explanation, reasoning_steps, revised) ==
    [status |-> status, confidence |-> confidence, explanation |-> explanation,
     reasoning_steps |-> reasoning_steps, revised |-> revised]

\* ClauseEvaluation; override_applied defaults to False, override_reason to None.
ClauseEvaluation(clause_id, retrieved_evidence, llm_evaluation, rule_results, final_status, final_confidence, override_applied, override_reason) ==
    [clause_id |-> clause_id, retrieved_evidence |-> retrieved_evidence,
     llm_evaluation |-> llm_evaluation, rule_results |-> rule_results,
     final_status |-> final_status, final_confidence |-> final_confidence,
     override_applied |-> override_applied, override_reason |-> override_reason]

(***************************************************************************)
(* CompliancePipeline._make_final_decision                                 *)
(***************************************************************************)
IsMandatoryRuleId(clause, rule_id) ==
    \E i \in DOMAIN clause.validation_rules :
        /\ clause.validation_rules[i].rule_id = rule_id
        /\ clause.validation_rules[i].mandatory

failed_mandatory_rules(rule_results, clause) ==
    LET Failed(r) == r.triggered /\ ~r.passed /\ IsMandatoryRuleId(clause, r.rule_id)
    IN  SelectSeq(rule_results, Failed)

PassedCount(rule_results) ==
    Cardinality({i \in DOMAIN rule_results : rule_results[i].passed})

\* rule_pass_rate = sum(1 for r in rule_results if r.passed) / len(rule_results)
rule_pass_rate(rule_results) == Rat(PassedCount(rule_results), Len(rule_results))

\* all(r.passed for r in rule_results if r.triggered)
all_rules_passed(rule_results) ==
    \A i \in DOMAIN rule_results : rule_results[i].triggered => rule_results[i].passed

OverrideCap     == Rat(1, 2)      \* min(final_confidence, 0.5)
DiscountFloor   == Rat(3, 10)     \* max(0.3, ...)
DiscountStep    == Rat(2, 10)     \* final_confidence - 0.2

\* an override branch that does not look at the reasoning status
OverrideAnyStatus(llm_eval, rule_results, clause) ==
    failed_mandatory_rules(rule_results, clause) # <<>>

\* the override branch: mandatory rule failure overrides the LLM
OverrideTaken(llm_eval, rule_results, clause) ==
    /\ failed_mandatory_rules(rule_results, clause) # <<>>
    /\ llm_eval.status \in {SUPPORTED, PARTIAL}

\* the override branch without min(final_confidence, 0.5)
UncappedConfidence(llm_eval, rule_results, clause) == llm_eval.confidence

\* final_confidence after the override branch
CappedConfidence(llm_eval, rule_results, clause) ==
    IF OverrideTaken(llm_eval, rule_results, clause)
    THEN RMin(llm_eval.confidence, OverrideCap)
    ELSE llm_eval.confidence

\* final_confidence after the "all rules passed but LLM said not supported" branch
DiscountedConfidence(llm_eval, rule_results, clause) ==
    LET c == CappedConfidence(llm_eval, rule_results, clause)
    IN  IF all_rules_passed(rule_results) /\ rule_results # <<>>
           /\ llm_eval.status = NOT_SUPPORTED
        THEN RMax(DiscountFloor, RSub(c, DiscountStep))
        ELSE c

\* final_confidence after the calibration on the rule pass rate
BlendedConfidence(llm_eval, rule_results, clause) ==
    LET c == DiscountedConfidence(llm_eval, rule_results, clause)
    IN  IF rule_results # <<>>
        THEN RDivInt(RAdd(c, rule_pass_rate(rule_results)), 2)
        ELSE c

\* f"Mandatory rule(s) failed: {', '.join(ids)}", as the prefix and the ids
MandatoryReason(failed) ==
    Str(<<"Mandatory rule(s) failed: ">> \o [i \in DOMAIN failed |-> failed[i].rule_id])

\* returns (final_status, final_confidence, override_applied, override_reason)
\* the arguments and the result of a call of a function checked on its own
VARIABLES f_in, f_out

\* a decision that depends on whether a decision was made before
StatefulDecision(llm_eval, rule_results, clause) ==
    [final_status |-> IF f_out = None THEN llm_eval.status ELSE NOT_SUPPORTED,
     final_confidence |-> llm_eval.confidence,
     override_applied |-> FALSE, override_reason |-> None]

_make_final_decision(llm_eval, rule_results, clause) ==
    LET failed   == failed_mandatory_rules(rule_results, clause)
        override == OverrideTaken(llm_eval, rule_results, clause)
    IN  [final_status     |-> IF override THEN PARTIAL ELSE llm_eval.status,
         final_confidence |-> BlendedConfidence(llm_eval, rule_results, clause),
         override_applied |-> override,
         override_reason  |-> IF override THEN MandatoryReason(failed) ELSE None]

(***************************************************************************)
(* CompliancePipeline._generate_summary                                    *)
(***************************************************************************)
CountStatus(evals, st) == Cardinality({i \in DOMAIN evals : evals[i].final_status = st})

\* a total that stops after the first evaluation
FirstConfidence(evals) == IF evals = <<>> THEN RZero ELSE evals[1].final_confidence

RECURSIVE SumConfidence(_)
SumConfidence(evals) ==
    IF evals = <<>> THEN RZero
    ELSE RAdd(evals[1].final_confidence, SumConfidence(Tail(evals)))

_generate_summary(evals) ==
    LET total == Len(evals)
    IN  [total_clauses      |-> total,
         supported          |-> CountStatus(evals, SUPPORTED),
         partial            |-> CountStatus(evals, PARTIAL),
         not_supported      |-> CountStatus(evals, NOT_SUPPORTED),
         inferred           |-> CountStatus(evals, INFERRED),
         compliance_rate    |-> IF total > 0
                                THEN Rat(CountStatus(evals, SUPPORTED)
                                         + CountStatus(evals, INFERRED), total)
                                ELSE RZero,
         average_confidence |-> IF total > 0
                                THEN RDivInt(SumConfidence(evals), total)
                                ELSE RZero,
         overrides_applied  |-> Cardinality({i \in DOMAIN evals : evals[i].override_applied})]

(***************************************************************************)
(* The reasoning service's structured records (json.loads of the reply).   *)
(* A record is a dict; a key the reply leaves out holds Missing.           *)
(***************************************************************************)
Missing  == [t |-> "missing"]
Null     == [t |-> "null"]                  \* JSON null
Float(r) == [t |-> "float", v |-> r]        \* a JSON number

\* dict.get(key, default)
DGet(d, key, default) == IF d[key].t = "missing" THEN default ELSE d[key]

SupportedText    == <<"s", "u", "p", "p", "o", "r", "t", "e", "d">>
PartialText      == <<"p", "a", "r", "t", "i", "a", "l">>
NotSupportedText == <<"n", "o", "t", "_", "s", "u", "p", "p", "o", "r", "t", "e", "d">>
InferredText     == <<"i", "n", "f", "e", "r", "r", "e", "d">>

\* a lookup that passes a text it does not know on as a status of its own
StatusOrUnknown(key) ==
    CASE key = SupportedText    -> SUPPORTED
      [] key = PartialText      -> PARTIAL
      [] key = NotSupportedText -> NOT_SUPPORTED
      [] key = InferredText     -> INFERRED
      [] OTHER                  -> "unknown"

\* status_map.get(key, ComplianceStatus.NOT_SUPPORTED)
status_map_get(key) ==
    CASE key = SupportedText    -> SUPPORTED
      [] key = PartialText      -> PARTIAL
      [] key = NotSupportedText -> NOT_SUPPORTED
      [] key = InferredText     -> INFERRED
      [] OTHER                  -> NOT_SUPPORTED

\* The tail of the try block of _evaluate_with_llm: map the status and build
\* the LLMEvaluation, or raise.
MakeLLMEvaluation(final_result, cot_result, revised) ==
    LET sv == DGet(final_result, "status", Str(NotSupportedText))
        cv == DGet(final_result, "confidence", Float(Rat(1, 2)))
    IN  IF sv.t # "str" THEN Raised("AttributeError")        \* .lower() of a non-str
        ELSE IF cv.t # "float" THEN Raised("ValueError")     \* float("high")
        ELSE LLMEvaluation(status_map_get(Lower(sv.v)), cv.v,
                           <<DGet(final_result, "explanation", Str("")).v>>,
                           DGet(cot_result, "reasoning_steps", List(<<>>)),
                           revised)

\* a failure result that keeps the default confidence
NeutralLLMEvaluation(e) ==
    LLMEvaluation(NOT_SUPPORTED, Rat(1, 2), <<"LLM evaluation failed: ", e>>, None, FALSE)

\* The except branch of _evaluate_with_llm
DegradedLLMEvaluation(e) ==
    LLMEvaluation(NOT_SUPPORTED, RZero, <<"LLM evaluation failed: ", e>>, None, FALSE)

(***************************************************************************)
(* CompliancePipeline.evaluate_clause and _create_error_evaluation         *)
(***************************************************************************)
\* a zero-evidence evaluation that keeps a neutral confidence
NeutralEvidenceEvaluation(clause) ==
    ClauseEvaluation(clause.clause_id, <<>>, None, <<>>, NOT_SUPPORTED, Rat(1, 2), FALSE, None)

ZeroEvidenceEvaluation(clause) ==
    ClauseEvaluation(clause.clause_id, <<>>, None, <<>>, NOT_SUPPORTED, RZero, FALSE, None)

\* an error evaluation that reports partial compliance
PartialErrorEvaluation(clause, error) ==
    ClauseEvaluation(clause.clause_id, <<>>,
                     LLMEvaluation(NOT_SUPPORTED, RZero, <<"Evaluation error: ", error>>,
                                   None, FALSE),
                     <<>>, PARTIAL, RZero, FALSE, None)

_create_error_evaluation(clause, error) ==
    ClauseEvaluation(clause.clause_id, <<>>,
                     LLMEvaluation(NOT_SUPPORTED, RZero, <<"Evaluation error: ", error>>,
                                   None, FALSE),
                     <<>>, NOT_SUPPORTED, RZero, FALSE, None)

\* Step 4 of evaluate_clause and the creation of the evaluation
FusedEvaluation(clause, evidence, rule_results, llm_evaluation) ==
    LET d == _make_final_decision(llm_evaluation, rule_results, clause)
    IN  ClauseEvaluation(clause.clause_id, evidence, llm_evaluation, rule_results,
                         d.final_status, d.final_confidence,
                         d.override_applied, d.override_reason)

(***************************************************************************)
(* The data the engine runs on: the parsed clause catalog                  *)
(* (main.parsed_clauses, rules as clause_parser creates them) and the      *)
(* chunks of the uploaded document held by the vector store.               *)
(***************************************************************************)
ValidationRule(rule_id, rule_type, parameters, mandatory) ==
    [rule_id |-> rule_id, rule_type |-> rule_type, parameters |-> parameters,
     mandatory |-> mandatory]

ESGClause(clause_id, framework, validation_rules) ==
    [clause_id |-> clause_id, framework |-> framework,
     validation_rules |-> validation_rules]

\* clause_parser._create_gri_validation_rules
NumericRule(clause_id) ==
    ValidationRule(clause_id \o "_numeric", "numeric", [min_value |-> Num(0)], TRUE)
TemporalRule(clause_id) ==
    ValidationRule(clause_id \o "_temporal", "temporal", [format |-> Str("year")], TRUE)

ClauseA == ESGClause("cA", "GRI", <<NumericRule("cA"), TemporalRule("cA")>>)
ClauseB == ESGClause("cB", "GRI", <<NumericRule("cB")>>)
ClauseN == ESGClause("cN", "TCFD", <<>>)

Frameworks == {"GRI", "TCFD"}

parsed_clauses ==
    [all |-> <<ClauseA, ClauseB, ClauseN>>, GRI |-> <<ClauseA, ClauseB>>, TCFD |-> <<ClauseN>>]

DocumentIds == {"doc1"}          \* documents_metadata

\* chunk texts:  "1200 tCO2e in FY2023",  "no data"
ChunkText ==
    [E1 |-> <<"1", "2", "0", "0", " ", "t", "C", "O", "2", "e", " ", "i", "n", " ",
              "F", "Y", "2", "0", "2", "3">>,
     E2 |-> <<"n", "o", " ", "d", "a", "t", "a">>]

\* what vector_store.search_documents can return for a clause query
SearchResults == {<<>>, <<"E1">>, <<"E2">>}

EvidenceTexts(evidence) == [i \in DOMAIN evidence |-> ChunkText[evidence[i]]]

\* the outcome of a call to a collaborator: a value, or an exception
Ok(v)      == [kind |-> "ok", out |-> v]
Raise(e)   == [kind |-> "raise", err |-> e]

ClauseIds == {parsed_clauses.all[i].clause_id : i \in DOMAIN parsed_clauses.all}

ClauseById(clause_id) ==
    CHOOSE c \in {parsed_clauses.all[i] : i \in DOMAIN parsed_clauses.all} :
        c.clause_id = clause_id

\* validate_rules is a function of the clause's rules and the evidence texts:
\* its value for every clause and every search result
RuleResults ==
    [clause_id \in ClauseIds, evidence \in SearchResults |->
        validate_rules(ClauseById(clause_id).validation_rules, EvidenceTexts(evidence))]

RetrievalOutcomes == {Raise("ConnectionError")} \cup {Ok(ev) : ev \in SearchResults}

CotExplanation == "cot explanation"
RevExplanation == "revised explanation"

UpperPartialText == <<"P", "A", "R", "T", "I", "A", "L">>
MaybeText        == <<"m", "a", "y", "b", "e">>

\* (status, confidence) of the stage 1 replies: well-formed ones, a
\* confidence above 1, keys left out, an unknown status, a null status and
\* a confidence that is no number
CotReplies ==
    {<<Str(SupportedText), Float(Rat(9, 10))>>,
     <<Str(UpperPartialText), Float(Rat(3, 2))>>,
     <<Str(NotSupportedText), Float(Rat(1, 10))>>,
     <<Str(InferredText), Missing>>,
     <<Str(MaybeText), Float(Rat(9, 10))>>,
     <<Missing, Float(Rat(9, 10))>>,
     <<Null, Float(Rat(9, 10))>>,
     <<Str(SupportedText), Str("high")>>}

\* (status, confidence) of the stage 3 replies
ReviseReplies ==
    {<<Str(PartialText), Float(Rat(9, 10))>>,
     <<Str(SupportedText), Float(Rat(3, 2))>>,
     <<Str(NotSupportedText), Missing>>,
     <<Null, Float(Rat(9, 10))>>}

\* stage 1 and stage 3 replies; json.loads raising is the JSONDecodeError outcome
StageRecord(status, confidence, explanation, steps) ==
    [status |-> status, confidence |-> confidence, explanation |-> Str(explanation),
     reasoning_steps |-> steps, needs_revision |-> Missing]

CotOutcomes ==
    {Raise("APIError"), Raise("JSONDecodeError")} \cup
    {Ok(StageRecord(r[1], r[2], CotExplanation, List(<<"step">>))) : r \in CotReplies}

ReviseOutcomes ==
    {Raise("APIError"), Raise("JSONDecodeError")} \cup
    {Ok(StageRecord(r[1], r[2], RevExplanation, Missing)) : r \in ReviseReplies}

ReflectionRecord(needs_revision) ==
    [status |-> Missing, confidence |-> Missing, explanation |-> Missing,
     reasoning_steps |-> Missing, needs_revision |-> needs_revision]

ReflectOutcomes ==
    {Raise("APIError"), Raise("JSONDecodeError")} \cup
    {Ok(ReflectionRecord(n)) : n \in {Bool(TRUE), Bool(FALSE), Missing}}

(***************************************************************************)
(* Bounds of the model.                                                    *)
(***************************************************************************)
MaxRuns      == 1     \* evaluate_compliance requests served
MaxOverrides == 1     \* manual overrides applied in a run of the whole system
MaxTime      == 1     \* seconds the clock can show (0..MaxTime)
MaxRules     == 3     \* rules per clause in the inputs of decision fusion
MaxRuleList  == 2     \* rules in one validate_rules call
MaxEvidence  == 2     \* evidence chunks in one validate_rules call
MaxBatch     == 2     \* labels in one add_ground_truth request
MaxInflight == 3
MaxStoreOverrides == 2  \* manual overrides applied to a store of reports

(***************************************************************************)
(* State.                                                                  *)
(*  compliance_reports   main.compliance_reports: report_id -> report      *)
(*  now                  the second datetime.now() last showed             *)
(*  pc, request, clauses, evaluations                                      *)
(*                       the evaluate_compliance request in progress: its  *)
(*                       position, arguments, clause list and the          *)
(*                       evaluations list of evaluate_document             *)
(*  retrieved_evidence, cot_result, reflection_result, final_result        *)
(*                       locals of evaluate_clause / _evaluate_with_llm    *)
(*                       for the clause in progress (all but cot_result    *)
(*                       are kept until the next clause starts)            *)
(*  llm_calls            the reasoning-service calls made for the current  *)
(*                       clause, in order                                  *)
(*  rule_calls           the validate_rules calls made for that clause     *)
(*  failure              the exception caught for that clause (by          *)
(*                       evaluate_document for retrieval, by               *)
(*                       _evaluate_with_llm for the reasoning stages) and  *)
(*                       the stage it arose in, or None                    *)
(*  runs, overrides_done requests served so far                            *)
(*  ground_truth         accuracy_evaluator.ground_truth: key -> label     *)
(*  response             what the last store-side request handler returned *)
(*                       or raised (None before any, and while an          *)
(*                       evaluate_compliance request is in progress)       *)
(*  inflight             the requests the server has accepted, in order of *)
(*                       arrival, each with the response of its handler    *)
(*                       (None until the handler has run) and its place in *)
(*                       the order in which the handlers ran               *)
(*  f_in, f_out          (declared above) arguments and result of one call *)
(*                       of a function checked on its own (SpecFusion,     *)
(*                       SpecRules)                                        *)
(***************************************************************************)
VARIABLES compliance_reports, now, pc, request, clauses, evaluations,
          retrieved_evidence, cot_result, reflection_result, final_result,
          llm_calls, rule_calls, failure, runs, overrides_done,
          ground_truth, response, inflight

storevars  == <<compliance_reports, now, runs, overrides_done>>
runvars    == <<pc, request, clauses, evaluations>>
clausevars == <<retrieved_evidence, cot_result, reflection_result, final_result,
                llm_calls, rule_calls, failure>>
fvars      == <<f_in, f_out>>
apivars    == <<ground_truth, response, inflight>>
vars       == <<storevars, runvars, clausevars, fvars, apivars>>

NoReports == [id \in {} |-> None]
NoLabels  == [key \in {} |-> None]

InitSystem ==
    /\ compliance_reports = NoReports
    /\ now = 0
    /\ runs = 0
    /\ overrides_done = 0
    /\ pc = "idle"
    /\ request = None
    /\ clauses = <<>>
    /\ evaluations = <<>>
    /\ retrieved_evidence = <<>>
    /\ cot_result = None
    /\ reflection_result = None
    /\ final_result = None
    /\ llm_calls = <<>>
    /\ rule_calls = 0
    /\ failure = None
    /\ ground_truth = NoLabels
    /\ response = None
    /\ inflight = <<>>

Init ==
    /\ InitSystem
    /\ f_in = None
    /\ f_out = None

(***************************************************************************)
(* main.evaluate_compliance: validation of the request and clause          *)
(* selection.  The handler has no await, so it runs to its end before any  *)
(* other handler starts; its calls to the collaborators are the steps      *)
(* below.  A request for an unknown document or with no clause to          *)
(* evaluate ends in an HTTP error and changes nothing.                     *)
(***************************************************************************)
ClauseIdChoices == {{}, {"cB"}}       \* request.clause_ids (empty: not given)

SelectedClauses(framework, clause_ids) ==
    IF clause_ids # {}
    THEN LET Wanted(c) == c.clause_id \in clause_ids
         IN  SelectSeq(parsed_clauses.all, Wanted)
    ELSE parsed_clauses[framework]

EvaluateCompliance(document_id, framework, clause_ids) ==
    /\ pc = "idle"
    /\ runs < MaxRuns
    /\ document_id \in DocumentIds
    /\ SelectedClauses(framework, clause_ids) # <<>>
    /\ runs' = runs + 1
    /\ request' = [document_id |-> document_id, framework |-> framework]
    /\ clauses' = SelectedClauses(framework, clause_ids)
    /\ evaluations' = <<>>
    /\ pc' = "retrieve"
    /\ response' = None
    /\ UNCHANGED <<compliance_reports, now, overrides_done, clausevars, fvars, ground_truth,
                   inflight>>

(***************************************************************************)
(* evaluate_document's loop: one evaluate_clause per clause, in order.     *)
(***************************************************************************)
CurrentClause == clauses[Len(evaluations) + 1]

\* evaluations.append(e), then the next clause or the end of the loop
AppendEvaluation(e) ==
    /\ evaluations' = Append(evaluations, e)
    /\ pc' = IF Len(evaluations) + 1 = Len(clauses) THEN "report" ELSE "retrieve"
    /\ cot_result' = None

\* evaluate_clause after _evaluate_with_llm has returned llm_evaluation:
\* Step 3, rule_validator.validate_rules(clause.validation_rules, evidence_texts),
\* then Step 4
FinishClause(llm_evaluation) ==
    /\ rule_calls' = rule_calls + 1
    /\ AppendEvaluation(FusedEvaluation(CurrentClause, retrieved_evidence,
                                        RuleResults[CurrentClause.clause_id,
                                                    retrieved_evidence],
                                        llm_evaluation))

\* the except branch of _evaluate_with_llm, reached from stage `stage`
FailLLM(stage, e) ==
    /\ failure' = [stage |-> stage, err |-> e]
    /\ FinishClause(DegradedLLMEvaluation(e))

\* the try block of _evaluate_with_llm once final_result is chosen
CompleteLLM(stage, fr, revised) ==
    /\ final_result' = fr
    /\ \E llm \in {MakeLLMEvaluation(fr, cot_result, revised)} :
          IF HasRaised(llm)
          THEN FailLLM(stage, llm.raised)
          ELSE /\ failure' = failure
               /\ FinishClause(llm)

\* a check that never takes the zero-evidence branch
SomeEvidence(evidence) == FALSE

\* if not evidence:
NoEvidence(evidence) == evidence = <<>>

\* Step 1 of evaluate_clause: vector_store.search_documents
Retrieve ==
    /\ pc = "retrieve"
    /\ llm_calls' = <<>>
    /\ rule_calls' = 0
    /\ final_result' = None
    /\ reflection_result' = None
    /\ \E o \in RetrievalOutcomes :
          IF o.kind = "raise"
          THEN \* caught by evaluate_document
               /\ retrieved_evidence' = <<>>
               /\ failure' = [stage |-> "retrieve", err |-> o.err]
               /\ AppendEvaluation(_create_error_evaluation(CurrentClause, o.err))
          ELSE /\ retrieved_evidence' = o.out
               /\ failure' = None
               /\ IF NoEvidence(o.out)
                  THEN AppendEvaluation(ZeroEvidenceEvaluation(CurrentClause))
                  ELSE /\ pc' = "cot"
                       /\ UNCHANGED <<evaluations, cot_result>>
    /\ UNCHANGED <<storevars, request, clauses, fvars, apivars>>

\* _chain_of_thought_reasoning
ChainOfThought ==
    /\ pc = "cot"
    /\ llm_calls' = Append(llm_calls, "cot")
    /\ \E o \in CotOutcomes :
          IF o.kind = "raise"
          THEN FailLLM("cot", o.err)
          ELSE /\ cot_result' = o.out
               /\ pc' = "reflect"
               /\ UNCHANGED <<evaluations, rule_calls, failure>>
    /\ UNCHANGED <<storevars, request, clauses, fvars, apivars, retrieved_evidence,
                   reflection_result, final_result>>

\* a decision that always revises
AlwaysRevise(reflection) == TRUE

\* if reflection_result.get("needs_revision", False):
NeedsRevision(reflection) == Truthy(DGet(reflection, "needs_revision", Bool(FALSE)))

\* _self_reflection and the decision whether to revise
SelfReflection ==
    /\ pc = "reflect"
    /\ llm_calls' = Append(llm_calls, "reflect")
    /\ \E o \in ReflectOutcomes :
          IF o.kind = "raise"
          THEN FailLLM("reflect", o.err) /\ UNCHANGED <<final_result, reflection_result>>
          ELSE /\ reflection_result' = o.out
               /\ IF NeedsRevision(o.out)
                  THEN /\ pc' = "revise"
                       /\ UNCHANGED <<evaluations, cot_result, final_result,
                                      rule_calls, failure>>
                  ELSE CompleteLLM("reflect", cot_result, FALSE)
    /\ UNCHANGED <<storevars, request, clauses, fvars, apivars, retrieved_evidence>>

\* _revise_reasoning
ReviseReasoning ==
    /\ pc = "revise"
    /\ llm_calls' = Append(llm_calls, "revise")
    /\ \E o \in ReviseOutcomes :
          IF o.kind = "raise"
          THEN FailLLM("revise", o.err) /\ UNCHANGED final_result
          ELSE CompleteLLM("revise", o.out, TRUE)
    /\ UNCHANGED <<storevars, request, clauses, fvars, apivars, retrieved_evidence,
                   reflection_result>>

\* report_id = f"report_{document_id}_{framework.value}_{now:%Y%m%d_%H%M%S}"
ReportId(document_id, framework, t) == <<document_id, framework, t>>

ComplianceReport(report_id, document_id, framework, evals, summary) ==
    [report_id |-> report_id, document_id |-> document_id, framework |-> framework,
     evaluations |-> evals, summary |-> summary]

\* dict[key] = value
Put(d, key, value) ==
    [k \in DOMAIN d \cup {key} |-> IF k = key THEN value ELSE d[k]]

\* The end of evaluate_document and of evaluate_compliance: summary, report,
\* compliance_reports[report.report_id] = report.  The clock shows a second
\* not before the one it last showed.
StoreReport ==
    /\ pc = "report"
    /\ \E t \in now..MaxTime :
          LET rid == ReportId(request.document_id, request.framework, t)
          IN  /\ now' = t
              /\ compliance_reports' =
                    Put(compliance_reports, rid,
                        ComplianceReport(rid, request.document_id, request.framework,
                                         evaluations, _generate_summary(evaluations)))
    /\ pc' = "idle"
    /\ request' = None
    /\ clauses' = <<>>
    /\ evaluations' = <<>>
    /\ retrieved_evidence' = <<>>
    /\ reflection_result' = None
    /\ final_result' = None
    /\ llm_calls' = <<>>
    /\ rule_calls' = 0
    /\ failure' = None
    /\ UNCHANGED <<runs, overrides_done, cot_result, fvars, apivars>>

(***************************************************************************)
(* main.override_clause_evaluation                                         *)
(***************************************************************************)
OverrideReasons == {<<>>, <<"auditor">>}      \* request.reason ("" and a text)

\* what a handler hands back: raise HTTPException(...), or return {...}
HTTPException(status_code, detail) == [status_code |-> status_code, detail |-> detail]
Returned(body) == [status_code |-> 200, body |-> body]

\* the report ids a client asks for: the stored ones and one that is not stored
ReportIdChoices == DOMAIN compliance_reports \cup {ReportId("doc1", "GRI", MaxTime)}

\* next((e for e in report.evaluations if e.clause_id == clause_id), None)
FirstIndex(evals, clause_id) ==
    IF \E i \in DOMAIN evals : evals[i].clause_id = clause_id
    THEN CHOOSE i \in DOMAIN evals :
            /\ evals[i].clause_id = clause_id
            /\ \A j \in 1..(i - 1) : evals[j].clause_id # clause_id
    ELSE 0

\* request.reason alone
BareReason(reason) == Str(reason)

\* f"Manual override: {request.reason}"
ManualReason(reason) == Str(<<"Manual override: ">> \o reason)

\* a request that leaves the evaluation as it is
KeepEvaluation(evaluation, new_status, reason) == evaluation

\* the outcome of two interleaved writes: the status of this request, the
\* reason of an earlier one
TornOverride(evaluation, new_status, reason) ==
    [evaluation EXCEPT !.final_status = new_status,
                       !.override_applied = TRUE,
                       !.override_reason = IF evaluation.override_applied
                                           THEN @ ELSE ManualReason(reason)]

ApplyOverride(evaluation, new_status, reason) ==
    [evaluation EXCEPT !.final_status = new_status,
                       !.override_applied = TRUE,
                       !.override_reason = ManualReason(reason)]

\* the response of a successful override
OverrideApplied(evaluation, clause_id, new_status) ==
    Returned([message |-> "Override applied successfully", clause_id |-> clause_id,
              old_status |-> evaluation.final_status, new_status |-> new_status])

\* A request that ends in 404 changes nothing in the store.
OverrideClauseEvaluation(report_id, clause_id, new_status, reason) ==
    /\ pc = "idle"
    /\ IF report_id \notin DOMAIN compliance_reports
       THEN /\ response' = HTTPException(404, "Report not found")
            /\ UNCHANGED <<compliance_reports, overrides_done>>
       ELSE \E i \in {FirstIndex(compliance_reports[report_id].evaluations, clause_id)} :
               IF i = 0
               THEN /\ response' = HTTPException(404, "Clause evaluation not found")
                    /\ UNCHANGED <<compliance_reports, overrides_done>>
               ELSE /\ overrides_done' = overrides_done + 1
                    /\ compliance_reports' =
                          [compliance_reports EXCEPT ![report_id].evaluations[i] =
                              ApplyOverride(@, new_status, reason)]
                    /\ response' =
                          OverrideApplied(compliance_reports[report_id].evaluations[i],
                                          clause_id, new_status)
    /\ UNCHANGED <<now, runs, runvars, clausevars, fvars, ground_truth>>

Next ==
    \/ \E d \in DocumentIds, f \in Frameworks, ids \in ClauseIdChoices :
          EvaluateCompliance(d, f, ids)
    \/ Retrieve
    \/ ChainOfThought
    \/ SelfReflection
    \/ ReviseReasoning
    \/ StoreReport
    \/ /\ overrides_done < MaxOverrides
       /\ \E rid \in ReportIdChoices, c \in ClauseIds,
             st \in ComplianceStatus, r \in OverrideReasons :
             OverrideClauseEvaluation(rid, c, st, r)
       /\ UNCHANGED inflight

Spec == Init /\ [][Next]_vars

\* evaluate_document runs in one thread and every call it makes returns or
\* raises, so a started evaluation keeps taking its next step
PipelineStep ==
    Retrieve \/ ChainOfThought \/ SelfReflection \/ ReviseReasoning \/ StoreReport

FairSpec == Spec /\ WF_vars(PipelineStep)

(***************************************************************************)
(* accuracy.AccuracyEvaluator.  The ground-truth dict is a function from   *)
(* key strings to labels; eval_with_truth is the list of (evaluation,      *)
(* label) pairs.                                                           *)
(***************************************************************************)
GroundTruthLabel(clause_id, document_id, expected_status, expected_evidence_pages) ==
    [clause_id |-> clause_id, document_id |-> document_id,
     expected_status |-> expected_status,
     expected_evidence_pages |-> expected_evidence_pages]

AccuracyMetrics(recall_at_k, precision, recall, f1, rule_precision, calibration, total) ==
    [retrieval_recall_at_k |-> recall_at_k, llm_precision |-> precision,
     llm_recall |-> recall, llm_f1_score |-> f1,
     rule_validation_precision |-> rule_precision,
     confidence_calibration_error |-> calibration,
     total_clauses_evaluated |-> total]

\* key = f"{document_id}_{clause_id}"
GroundTruthKey(document_id, clause_id) == document_id \o "_" \o clause_id

\* a batch of which only the first label has been stored
AddFirstLabel(gt, labels) ==
    IF labels = <<>> THEN gt
    ELSE Put(gt, GroundTruthKey(labels[1].document_id, labels[1].clause_id), labels[1])

\* for label in labels: self.ground_truth[key] = label
RECURSIVE add_ground_truth(_, _)
add_ground_truth(gt, labels) ==
    IF labels = <<>> THEN gt
    ELSE add_ground_truth(Put(gt, GroundTruthKey(labels[1].document_id, labels[1].clause_id),
                              labels[1]),
                          Tail(labels))

\* the evaluations that have a key in the dict, each with the label under it
JoinWithTruth(gt, evals, document_id) ==
    LET HasTruth(e) == GroundTruthKey(document_id, e.clause_id) \in DOMAIN gt
        kept == SelectSeq(evals, HasTruth)
    IN  [i \in DOMAIN kept |->
            << kept[i], gt[GroundTruthKey(document_id, kept[i].clause_id)] >>]

\* RetrievedEvidence.page_number and .similarity_score of the chunks
ChunkPage       == [E1 |-> 1, E2 |-> 2]
ChunkSimilarity == [E1 |-> Rat(4, 5), E2 |-> Rat(3, 10)]

_calculate_retrieval_recall(ewt) ==
    IF ewt # <<>>
    THEN Rat(Cardinality({i \in DOMAIN ewt :
                 {ChunkPage[c] : c \in Range(ewt[i][1].retrieved_evidence)}
                     \cap ewt[i][2].expected_evidence_pages # {}}),
             Len(ewt))
    ELSE RZero

\* a compliance test that leaves out inferred
SupportedOnly(status) == status = SUPPORTED

Compliant(status) == status \in {SUPPORTED, INFERRED}

\* the pairs with the given predicted and expected compliance
ConfusionCount(ewt, predicted, expected) ==
    Cardinality({i \in DOMAIN ewt : /\ Compliant(ewt[i][1].final_status) = predicted
                                    /\ Compliant(ewt[i][2].expected_status) = expected})

\* n / d if d > 0 else 0.0
RatioOrZero(n, d) == IF d > 0 THEN Rat(n, d) ELSE RZero

F1Score(precision, recall) ==
    IF ~RLeq(RAdd(precision, recall), RZero)
    THEN RDiv(RMul(RInt(2), RMul(precision, recall)), RAdd(precision, recall))
    ELSE RZero

LLMPrecision(ewt) ==
    RatioOrZero(ConfusionCount(ewt, TRUE, TRUE),
                ConfusionCount(ewt, TRUE, TRUE) + ConfusionCount(ewt, TRUE, FALSE))
LLMRecall(ewt) ==
    RatioOrZero(ConfusionCount(ewt, TRUE, TRUE),
                ConfusionCount(ewt, TRUE, TRUE) + ConfusionCount(ewt, FALSE, TRUE))

_calculate_llm_metrics(ewt) ==
    << LLMPrecision(ewt), LLMRecall(ewt), F1Score(LLMPrecision(ewt), LLMRecall(ewt)) >>

Correct(pair) == pair[1].final_status = pair[2].expected_status

\* the fraction of all joined evaluations that are correct
OverallAccuracy(ewt) ==
    Rat(Cardinality({i \in DOMAIN ewt : Correct(ewt[i])}), Len(ewt))

_calculate_rule_precision(ewt) ==
    LET rule_overrides == {i \in DOMAIN ewt : ewt[i][1].override_applied}
    IN  IF rule_overrides = {} THEN ROne
        ELSE Rat(Cardinality({i \in rule_overrides : Correct(ewt[i])}),
                 Cardinality(rule_overrides))

\* bins = [0.0, 0.2, 0.4, 0.6, 0.8, 1.0]
bins == << RZero, Rat(1, 5), Rat(2, 5), Rat(3, 5), Rat(4, 5), ROne >>

\* a binning whose last bin takes the confidence 1.0 as well
ClosedTopBin(confidence, i) ==
    /\ RLeq(bins[i], confidence)
    /\ IF i = Len(bins) - 1 THEN RLeq(confidence, bins[i + 1])
                            ELSE ~RLeq(bins[i + 1], confidence)

\* bins[i] <= confidence < bins[i + 1]
InBin(confidence, i) == RLeq(bins[i], confidence) /\ ~RLeq(bins[i + 1], confidence)

\* bin_data[i]: the pairs put in bin i (the first bin that takes the confidence)
BinData(ewt, i) ==
    {k \in DOMAIN ewt : /\ InBin(ewt[k][1].final_confidence, i)
                        /\ \A j \in 1..(i - 1) : ~InBin(ewt[k][1].final_confidence, j)}

\* error * len(correct_list) of one bin
BinError(ewt, i) ==
    IF BinData(ewt, i) = {} THEN RZero
    ELSE RMul(RAbs(RSub(RDivInt(RAdd(bins[i], bins[i + 1]), 2),
                        Rat(Cardinality({k \in BinData(ewt, i) : Correct(ewt[k])}),
                            Cardinality(BinData(ewt, i))))),
              RInt(Cardinality(BinData(ewt, i))))

TotalSamples(ewt) == Cardinality(UNION {BinData(ewt, i) : i \in 1..(Len(bins) - 1)})

_calculate_confidence_calibration(ewt) ==
    IF TotalSamples(ewt) > 0
    THEN RDivInt(RSum([i \in 1..(Len(bins) - 1) |-> BinError(ewt, i)]), TotalSamples(ewt))
    ELSE RZero

\* metrics that are zero throughout
AllZeroMetrics(total_clauses) ==
    AccuracyMetrics(RZero, RZero, RZero, RZero, RZero, RZero, total_clauses)

_create_zero_metrics(total_clauses) ==
    AccuracyMetrics(RZero, RZero, RZero, RZero, RZero, ROne, total_clauses)

ScoreJoined(ewt) ==
    AccuracyMetrics(_calculate_retrieval_recall(ewt),
                    _calculate_llm_metrics(ewt)[1], _calculate_llm_metrics(ewt)[2],
                    _calculate_llm_metrics(ewt)[3],
                    _calculate_rule_precision(ewt),
                    _calculate_confidence_calibration(ewt),
                    Len(ewt))

evaluate_accuracy(gt, evals, document_id) ==
    IF JoinWithTruth(gt, evals, document_id) = <<>>
    THEN _create_zero_metrics(Len(evals))
    ELSE ScoreJoined(JoinWithTruth(gt, evals, document_id))

\* the mean similarity of one evaluation's evidence, 0.0 without evidence
MeanSimilarity(e) ==
    IF e.retrieved_evidence = <<>> THEN RZero
    ELSE RDivInt(RSum([i \in DOMAIN e.retrieved_evidence |->
                          ChunkSimilarity[e.retrieved_evidence[i]]]),
                 Len(e.retrieved_evidence))

SumLen(evals, field) ==
    IF evals = <<>> THEN 0
    ELSE RSum([i \in DOMAIN evals |-> RInt(Len(evals[i][field]))])[1]

RulesPassed(evals) ==
    IF evals = <<>> THEN 0
    ELSE RSum([i \in DOMAIN evals |-> RInt(PassedCount(evals[i].rule_results))])[1]

generate_self_benchmark(evals) ==
    IF evals = <<>> THEN [total_clauses |-> 0]
    ELSE [total_clauses |-> Len(evals),
          average_confidence |-> RDivInt(SumConfidence(evals), Len(evals)),
          low_confidence_count |->
              Cardinality({i \in DOMAIN evals :
                              ~RLeq(Rat(1, 2), evals[i].final_confidence)}),
          average_evidence_retrieved |-> Rat(SumLen(evals, "retrieved_evidence"), Len(evals)),
          average_similarity_score |->
              RDivInt(RSum([i \in DOMAIN evals |-> MeanSimilarity(evals[i])]), Len(evals)),
          total_rules_checked |-> SumLen(evals, "rule_results"),
          rules_passed |-> RulesPassed(evals),
          rule_pass_rate |-> RatioOrZero(RulesPassed(evals), SumLen(evals, "rule_results")),
          status_distribution |->
              [st \in {x \in ComplianceStatus : CountStatus(evals, x) > 0} |->
                  CountStatus(evals, st)],
          overrides_applied |-> Cardinality({i \in DOMAIN evals : evals[i].override_applied})]

(***************************************************************************)
(* Decision fusion on its own: one call of _make_final_decision on an      *)
(* LLMEvaluation and the rule results of a clause with up to MaxRules      *)
(* rules.  validate_rules returns one result per rule of the clause, in    *)
(* order and with the rule's id, and a result that is not triggered has    *)
(* not passed.                                                             *)
(***************************************************************************)
FusionConfidences == {RZero, Rat(1, 10), Rat(1, 2), Rat(9, 10), Rat(3, 2)}

RuleOutcomes == {<<TRUE, TRUE>>, <<TRUE, FALSE>>, <<FALSE, FALSE>>}   \* (triggered, passed)

FusionRuleId(i) == "r" \o ToString(i)

FusionInput(status, confidence, n, mandatory, outcome) ==
    [llm_eval     |-> LLMEvaluation(status, confidence, <<"explanation">>, None, FALSE),
     rule_results |-> [i \in 1..n |->
                          RuleValidationResult(FusionRuleId(i), outcome[i][2], "message",
                                               outcome[i][1])],
     clause       |-> ESGClause("c", "GRI",
                                [i \in 1..n |->
                                    ValidationRule(FusionRuleId(i), "numeric",
                                                   [min_value |-> Num(0)], mandatory[i])])]

FusionInputs ==
    {FusionInput(st, c, n, m, o) :
        st \in ComplianceStatus, c \in FusionConfidences,
        <<n, m, o>> \in UNION {{<<k, mm, oo>> : mm \in [1..k -> BOOLEAN],
                                               oo \in [1..k -> RuleOutcomes]} :
                                 k \in 0..MaxRules}}

InitFusion ==
    /\ InitSystem
    /\ f_in \in FusionInputs
    /\ f_out = None

\* one call; the same arguments can be handed to it again
ApplyFusion ==
    /\ f_in # None
    /\ f_out' = _make_final_decision(f_in.llm_eval, f_in.rule_results, f_in.clause)
    /\ UNCHANGED <<storevars, runvars, clausevars, f_in, apivars>>

NextFusion == ApplyFusion

SpecFusion == InitFusion /\ [][NextFusion]_vars

(***************************************************************************)
(* The rule validator on its own: one call of validate_rules on up to      *)
(* MaxRuleList rules and up to MaxEvidence evidence chunks.  The rules     *)
(* are well-formed ones of each type, rules with a parameter of the wrong  *)
(* type (ValidationRule.parameters is Dict[str, Any]) and a rule of a type *)
(* the validator does not know.                                            *)
(***************************************************************************)
\* "in 2023"
YearText == <<"i", "n", " ", "2", "0", "2", "3">>

RuleTexts == {ChunkText.E1, ChunkText.E2, YearText}

NoParameters == [k \in {} |-> None]

RulePool ==
    {ValidationRule("num", "numeric", [min_value |-> Num(0)], TRUE),
     ValidationRule("num_bad", "numeric", [min_value |-> Str("zero")], TRUE),
     ValidationRule("year", "temporal", [format |-> Str("year")], TRUE),
     ValidationRule("year_in", "temporal",
                    [format |-> Str("year"), min_year |-> Num(2000), max_year |-> Num(2024)],
                    FALSE),
     ValidationRule("kw", "keyword", [keywords |-> List(<< <<"D", "a", "t", "a">> >>)], FALSE),
     ValidationRule("kw_bad", "keyword", [keywords |-> Num(5)], FALSE),
     ValidationRule("field", "field_presence", [fields |-> Num(5)], TRUE),
     ValidationRule("custom", "custom", NoParameters, FALSE)}

SeqsUpTo(S, n) == UNION {[1..k -> S] : k \in 0..n}

RuleInputs ==
    {[rules |-> rs, evidence |-> ev] :
        rs \in SeqsUpTo(RulePool, MaxRuleList), ev \in SeqsUpTo(RuleTexts, MaxEvidence)}

InitRules ==
    /\ InitSystem
    /\ f_in \in RuleInputs
    /\ f_out = None

ApplyRules ==
    /\ f_in # None
    /\ f_out = None
    /\ f_out' = Ok(validate_rules(f_in.rules, f_in.evidence))
    /\ UNCHANGED <<storevars, runvars, clausevars, f_in, apivars>>

NextRules == ApplyRules

SpecRules == InitRules /\ [][NextRules]_vars

(***************************************************************************)
(* The accuracy endpoints of main.py on a store of reports: the store is   *)
(* one that evaluation runs leave behind (a GRI run of document doc1 on    *)
(* clauses cA and cB, a TCFD run on clause cN), the labels are the         *)
(* client's to choose.                                                     *)
(***************************************************************************)
AddReport(store, framework, evals) ==
    Put(store, ReportId("doc1", framework, 0),
        ComplianceReport(ReportId("doc1", framework, 0), "doc1", framework, evals,
                         _generate_summary(evals)))

\* cA with evidence E1 and a supported / 0.9 reasoning result, cB without evidence
RunGRI ==
    << FusedEvaluation(ClauseA, <<"E1">>, RuleResults["cA", <<"E1">>],
                       LLMEvaluation(SUPPORTED, Rat(9, 10), CotExplanation, None, FALSE)),
       ZeroEvidenceEvaluation(ClauseB) >>

\* the same run with an inferred / 0.9 reasoning result for cA
RunGRIInferred ==
    << FusedEvaluation(ClauseA, <<"E1">>, RuleResults["cA", <<"E1">>],
                       LLMEvaluation(INFERRED, Rat(9, 10), CotExplanation, None, FALSE)),
       ZeroEvidenceEvaluation(ClauseB) >>

\* cN with evidence E1 and a reasoning result of the given status and confidence
RunTCFD(status, confidence) ==
    << FusedEvaluation(ClauseN, <<"E1">>, RuleResults["cN", <<"E1">>],
                       LLMEvaluation(status, confidence, CotExplanation, None, FALSE)) >>

AccuracyStores ==
    {NoReports,
     AddReport(NoReports, "GRI", RunGRI),
     AddReport(NoReports, "GRI", RunGRIInferred),
     AddReport(NoReports, "TCFD", RunTCFD(SUPPORTED, ROne)),
     AddReport(NoReports, "TCFD", RunTCFD(NOT_SUPPORTED, Rat(1, 10))),
     AddReport(AddReport(NoReports, "GRI", RunGRI), "TCFD", RunTCFD(SUPPORTED, ROne))}

\* labels: GroundTruthLabel.document_id and .clause_id are any str
LabelPool ==
    {GroundTruthLabel("cA", "doc1", PARTIAL, {1}),
     GroundTruthLabel("cA", "doc1", SUPPORTED, {2}),
     GroundTruthLabel("A", "doc1_c", NOT_SUPPORTED, {1}),
     GroundTruthLabel("cN", "doc1", SUPPORTED, {1}),
     GroundTruthLabel("cB", "doc1", INFERRED, {1}),
     GroundTruthLabel("c_A", "doc1", NOT_SUPPORTED, {})}

LabelBatches == SeqsUpTo(LabelPool, MaxBatch)

InitStored ==
    /\ compliance_reports \in AccuracyStores
    /\ now = 0
    /\ runs = 0
    /\ overrides_done = 0
    /\ pc = "idle"
    /\ request = None
    /\ clauses = <<>>
    /\ evaluations = <<>>
    /\ retrieved_evidence = <<>>
    /\ cot_result = None
    /\ reflection_result = None
    /\ final_result = None
    /\ llm_calls = <<>>
    /\ rule_calls = 0
    /\ failure = None
    /\ ground_truth = NoLabels
    /\ response = None
    /\ inflight = <<>>
    /\ f_in = None
    /\ f_out = None

\* main.add_ground_truth
AddGroundTruth(labels) ==
    /\ pc = "idle"
    /\ ground_truth' = add_ground_truth(ground_truth, labels)
    /\ response' = Returned([message |-> "Added ground truth labels",
                             total_labels |-> Cardinality(DOMAIN ground_truth')])
    /\ UNCHANGED <<storevars, runvars, clausevars, fvars>>

\* the try block of get_accuracy_metrics: what evaluate_accuracy returns
TryEvaluateAccuracy(report) ==
    Ok(evaluate_accuracy(ground_truth, report.evaluations, report.document_id))

MetricsResponse(report_id, o) ==
    IF o.kind = "raise"
    THEN Returned([report_id |-> report_id,
                   self_benchmark |->
                       generate_self_benchmark(compliance_reports[report_id].evaluations),
                   note |-> "Ground truth not available, showing self-benchmark metrics"])
    ELSE Returned([report_id |-> report_id, metrics |-> o.out])

\* main.get_accuracy_metrics
GetAccuracyMetrics(report_id) ==
    /\ pc = "idle"
    /\ response' =
          IF report_id \notin DOMAIN compliance_reports
          THEN HTTPException(404, "Report not found")
          ELSE MetricsResponse(report_id, TryEvaluateAccuracy(compliance_reports[report_id]))
    /\ UNCHANGED <<storevars, runvars, clausevars, fvars, ground_truth>>

NextAccuracy ==
    \/ /\ \E labels \in LabelBatches : AddGroundTruth(labels)
       /\ UNCHANGED inflight
    \/ /\ \E rid \in ReportIdChoices : GetAccuracyMetrics(rid)
       /\ UNCHANGED inflight

SpecAccuracy == InitStored /\ [][NextAccuracy]_vars

\* Manual overrides on a store of reports
NextOverride ==
    /\ overrides_done < MaxStoreOverrides
    /\ \E rid \in ReportIdChoices, c \in ClauseIds,
          st \in ComplianceStatus, r \in OverrideReasons :
          OverrideClauseEvaluation(rid, c, st, r)
    /\ UNCHANGED inflight

SpecOverride == InitStored /\ [][NextOverride]_vars

(***************************************************************************)
(* Requests in flight.  Every handler of main.py is an `async def` whose   *)
(* body has no await, and uvicorn.run(app) serves the application on one   *)
(* event loop in one process: the server accepts requests at any time and  *)
(* in any number, and the loop runs one handler body at a time, from its   *)
(* first statement to its return or raise.  Which accepted request has its *)
(* handler run next is not fixed.                                          *)
(***************************************************************************)
OverrideRequest(report_id, clause_id, new_status, reason) ==
    [kind |-> "override", report_id |-> report_id, clause_id |-> clause_id,
     new_status |-> new_status, reason |-> reason]

LabelsRequest(labels) == [kind |-> "labels", labels |-> labels]

MetricsRequest(report_id) == [kind |-> "metrics", report_id |-> report_id]

ConcurrentRequests ==
    {OverrideRequest(ReportId("doc1", "GRI", 0), "cA", SUPPORTED, <<"auditor">>),
     OverrideRequest(ReportId("doc1", "GRI", 0), "cA", NOT_SUPPORTED, <<>>),
     OverrideRequest(ReportId("doc1", "GRI", 0), "cB", SUPPORTED, <<>>),
     LabelsRequest(<<GroundTruthLabel("cA", "doc1", PARTIAL, {1}),
                     GroundTruthLabel("cB", "doc1", INFERRED, {1})>>),
     LabelsRequest(<<GroundTruthLabel("cA", "doc1", SUPPORTED, {2}),
                     GroundTruthLabel("cN", "doc1", SUPPORTED, {1})>>),
     MetricsRequest(ReportId("doc1", "GRI", 0)),
     MetricsRequest(ReportId("doc1", "TCFD", 0))}

\* the server accepts a request; its handler has not started
Receive(req) ==
    /\ Len(inflight) < MaxInflight
    /\ inflight' = Append(inflight, [request |-> req, response |-> None, served |-> 0])
    /\ UNCHANGED <<storevars, runvars, clausevars, fvars, ground_truth, response>>

\* the number of handlers that have run
ServedCount == Cardinality({k \in DOMAIN inflight : inflight[k].response # None})

\* the route of the request
RunHandler(req) ==
    CASE req.kind = "override" ->
            OverrideClauseEvaluation(req.report_id, req.clause_id, req.new_status, req.reason)
      [] req.kind = "labels"   -> AddGroundTruth(req.labels)
      [] req.kind = "metrics"  -> GetAccuracyMetrics(req.report_id)

\* the event loop runs the handler of an accepted request to its end
Serve(k) ==
    /\ inflight[k].response = None
    /\ RunHandler(inflight[k].request)
    /\ inflight' = [inflight EXCEPT ![k].response = response',
                                    ![k].served = ServedCount + 1]

NextConcurrent ==
    \/ \E req \in ConcurrentRequests : Receive(req)
    \/ \E k \in DOMAIN inflight : Serve(k)

SpecConcurrent == InitStored /\ [][NextConcurrent]_vars

\* The whole system on a store that earlier runs have left behind: the
\* clock has not moved on since the stored report was made.
SpecReruns == InitStored /\ [][Next]_vars

(***************************************************************************)
(* Properties.                                                             *)
(***************************************************************************)
Last(q) == q[Len(q)]

RLt(a, b) == ~RLeq(b, a)

InUnitInterval(c) == RLeq(RZero, c) /\ RLeq(c, Rat(1, 1))

\* the evaluations held by the report store
StoredEvaluations ==
    UNION {{compliance_reports[rid].evaluations[i] :
               i \in DOMAIN compliance_reports[rid].evaluations} :
           rid \in DOMAIN compliance_reports}

\* the evaluations of the run in progress
RunEvaluations == {evaluations[i] : i \in DOMAIN evaluations}

\* a Python str kept as its pieces is non-empty iff some piece is
NonEmptyText(x) == x # None /\ \E i \in DOMAIN x.v : x.v[i] # ""

\* a fusion call has returned for a reasoning status of supported or partial
\* and rule results with a triggered, failed result of a mandatory rule
C1_Case ==
    /\ f_out # None
    /\ f_in.llm_eval.status \in {SUPPORTED, PARTIAL}
    /\ \E i \in DOMAIN f_in.rule_results :
          /\ f_in.rule_results[i].triggered
          /\ ~f_in.rule_results[i].passed
          /\ \E j \in DOMAIN f_in.clause.validation_rules :
                /\ f_in.clause.validation_rules[j].rule_id = f_in.rule_results[i].rule_id
                /\ f_in.clause.validation_rules[j].mandatory

\* the fraction of the rule results of the fusion call that passed
C1_PassRate ==
    Rat(Cardinality({i \in DOMAIN f_in.rule_results : f_in.rule_results[i].passed}),
        Len(f_in.rule_results))

C2_Claim ==
    \A e \in RunEvaluations \cup StoredEvaluations : InUnitInterval(e.final_confidence)

\* C3: every evaluation, stored or in the run in progress, with
\* override_applied has a non-empty override_reason, and one without
\* override_applied has no reason.
C3_Reason ==
    \A e \in RunEvaluations \cup StoredEvaluations :
        /\ e.override_applied => NonEmptyText(e.override_reason)
        /\ ~e.override_applied => e.override_reason = None

\* a stored evaluation overridden by hand with an empty request.reason, and
\* one overridden by fusion
C3_Witness ==
    /\ \E e \in StoredEvaluations :
          e.override_applied /\ e.override_reason = Str(<<"Manual override: ">>)
    /\ \E e \in StoredEvaluations :
          e.override_applied /\ e.override_reason.v[1] = "Mandatory rule(s) failed: "

\* C4 as stated: a stored evaluation with no retrieved evidence is
\* not_supported with confidence 0.0.
C4_Original ==
    \A e \in StoredEvaluations :
        e.retrieved_evidence = <<>> =>
            e.final_status = NOT_SUPPORTED /\ e.final_confidence = RZero

\* C4 (amended): a stored evaluation with no retrieved evidence has
\* confidence 0.0, and is not_supported unless a manual override has set its
\* status (override_applied is then true).
C4_Amended ==
    \A e \in StoredEvaluations :
        e.retrieved_evidence = <<>> =>
            /\ e.final_confidence = RZero
            /\ ~e.override_applied => e.final_status = NOT_SUPPORTED

\* a stored zero-evidence evaluation that a manual override made supported
C4_Witness ==
    \E e \in StoredEvaluations :
        /\ e.retrieved_evidence = <<>>
        /\ e.llm_evaluation = None
        /\ e.override_applied
        /\ e.final_status = SUPPORTED

\* the clause just evaluated is one whose retrieval returned no evidence
C5_Case ==
    /\ pc \in {"retrieve", "report"}
    /\ Len(evaluations) > 0
    /\ failure = None
    /\ retrieved_evidence = <<>>

\* C5: when retrieval returns an empty evidence list, the clause's
\* evaluation is not_supported with confidence 0.0, no rule results and no
\* reasoning result, and neither the reasoning service nor the rule validator
\* has been called for the clause; no reasoning stage runs without evidence.
C5_ShortCircuit ==
    /\ C5_Case =>
          /\ Last(evaluations).retrieved_evidence = <<>>
          /\ Last(evaluations).final_status = NOT_SUPPORTED
          /\ Last(evaluations).final_confidence = RZero
          /\ Last(evaluations).rule_results = <<>>
          /\ Last(evaluations).llm_evaluation = None
          /\ llm_calls = <<>>
          /\ rule_calls = 0
    /\ pc \in {"cot", "reflect", "revise"} => retrieved_evidence # <<>>
    /\ (llm_calls # <<>> \/ rule_calls # 0) => retrieved_evidence # <<>>

\* a clause with no evidence evaluated after a clause that went through
\* reasoning and rule validation
C5_Witness ==
    /\ C5_Case
    /\ Len(evaluations) = 2
    /\ evaluations[1].llm_evaluation # None
    /\ evaluations[1].rule_results # <<>>

\* Scenario B: clause cB (one mandatory numeric rule), evidence "no data",
\* reasoning result supported with confidence >= 0.5
C6_Case(e) ==
    /\ e.clause_id = ClauseB.clause_id
    /\ e.retrieved_evidence = <<"E2">>
    /\ e.llm_evaluation.status = SUPPORTED
    /\ RLeq(Rat(1, 2), e.llm_evaluation.confidence)

\* C6 as stated: in Scenario B the fused result is partial with confidence
\* exactly 0.5 and override_applied.
C6_Original ==
    \A e \in RunEvaluations :
        C6_Case(e) => /\ e.final_status = PARTIAL
                      /\ e.final_confidence = Rat(1, 2)
                      /\ e.override_applied

\* C6 (amended): in Scenario B the numeric rule is triggered and fails, and
\* the fused result is partial with override_applied and confidence exactly
\* 0.25: the cap at 0.5 is then averaged with the rule pass rate 0.
C6_Amended ==
    \A e \in RunEvaluations :
        C6_Case(e) => /\ Len(e.rule_results) = 1
                      /\ e.rule_results[1].triggered
                      /\ ~e.rule_results[1].passed
                      /\ e.final_status = PARTIAL
                      /\ e.final_confidence = Rat(1, 4)
                      /\ e.override_applied

\* Scenario B has been evaluated with reasoning confidence 0.9
C6_Witness ==
    \E e \in RunEvaluations :
        /\ C6_Case(e)
        /\ e.llm_evaluation.confidence = Rat(9, 10)
        /\ e.final_confidence = Rat(1, 4)

\* C7 as stated: in Scenario A (clause cA with a mandatory numeric rule and
\* a year rule, evidence "1200 tCO2e in FY2023", reasoning result supported
\* with confidence 0.9) both rules are triggered and pass, and fusion returns
\* supported without override and with confidence 0.95.
C7_Claim ==
    \A e \in RunEvaluations :
        (/\ e.clause_id = ClauseA.clause_id
         /\ e.retrieved_evidence = <<"E1">>
         /\ e.llm_evaluation.status = SUPPORTED
         /\ e.llm_evaluation.confidence = Rat(9, 10))
        => /\ \A i \in DOMAIN e.rule_results :
                 e.rule_results[i].triggered /\ e.rule_results[i].passed
           /\ e.final_status = SUPPORTED
           /\ ~e.override_applied
           /\ e.final_confidence = Rat(19, 20)

\* evaluate_clause has returned for the latest clause of the run
ClauseDone == pc \in {"retrieve", "report"} /\ Len(evaluations) > 0

Called(stage) == \E i \in DOMAIN llm_calls : llm_calls[i] = stage

LLMStages == {"cot", "reflect", "revise"}

\* the reasoning result of the latest clause carries the fields of final_result
FromFinalResult(llm) ==
    /\ llm.status = status_map_get(Lower(DGet(final_result, "status",
                                              Str(NotSupportedText)).v))
    /\ llm.confidence = DGet(final_result, "confidence", Float(Rat(1, 2))).v
    /\ llm.explanation = <<final_result.explanation.v>>

C8_State ==
    /\ llm_calls \in {<<>>, <<"cot">>, <<"cot", "reflect">>, <<"cot", "reflect", "revise">>}
    /\ Called("revise") =>
          reflection_result # None /\ reflection_result.needs_revision = Bool(TRUE)
    /\ (ClauseDone /\ reflection_result # None
            /\ reflection_result.needs_revision = Bool(TRUE)) => Called("revise")
    /\ (ClauseDone /\ failure = None /\ retrieved_evidence # <<>>) =>
          /\ FromFinalResult(Last(evaluations).llm_evaluation)
          /\ Last(evaluations).llm_evaluation.revised = Called("revise")
          /\ final_result.explanation =
                 Str(IF Called("revise") THEN RevExplanation ELSE CotExplanation)

C8_Step ==
    /\ (pc = "reflect" /\ pc' = "revise") <=>
          (pc = "reflect" /\ reflection_result' # None
              /\ reflection_result'.needs_revision = Bool(TRUE))
    /\ (pc = "reflect" /\ pc' # "revise" /\ failure' = None) => final_result' = cot_result

\* C8: the stages run in the order chain-of-thought, reflection, revision;
\* revision is invoked iff the reflection reply has needs_revision = true;
\* when it is invoked and succeeds the reasoning result has revised = true
\* and the status, confidence and explanation of the revision reply, and when
\* it is not invoked the result has revised = false and those of the
\* chain-of-thought reply.
C8_Revision == [](C8_State) /\ [][C8_Step]_vars

\* a run whose first clause was revised and whose second was not
C8_Witness ==
    /\ Len(evaluations) = 2
    /\ failure = None
    /\ evaluations[1].llm_evaluation # None
    /\ evaluations[1].llm_evaluation.revised
    /\ evaluations[1].llm_evaluation.explanation = <<RevExplanation>>
    /\ evaluations[2].llm_evaluation # None
    /\ ~evaluations[2].llm_evaluation.revised
    /\ evaluations[2].llm_evaluation.explanation = <<CotExplanation>>
    /\ reflection_result.needs_revision = Bool(FALSE)

\* C9: when a reasoning stage raises or its reply cannot be parsed, no later
\* stage is invoked and no stage is invoked twice for the clause;
\* _evaluate_with_llm returns the degraded result (not_supported, 0.0, the
\* error text as explanation, no reasoning steps, revised = false) and the
\* exception stays inside: evaluate_clause goes on to rule validation.
C9_Degraded ==
    /\ \A i, j \in DOMAIN llm_calls : i # j => llm_calls[i] # llm_calls[j]
    /\ (failure # None /\ failure.stage \in LLMStages) =>
          /\ ClauseDone
          /\ Last(llm_calls) = failure.stage
          /\ Last(evaluations).llm_evaluation.status = NOT_SUPPORTED
          /\ Last(evaluations).llm_evaluation.confidence = RZero
          /\ Last(evaluations).llm_evaluation.explanation =
                 <<"LLM evaluation failed: ", failure.err>>
          /\ Last(evaluations).llm_evaluation.reasoning_steps = None
          /\ Last(evaluations).llm_evaluation.revised = FALSE
          /\ rule_calls = 1
          /\ Last(evaluations).retrieved_evidence = retrieved_evidence
          /\ Len(Last(evaluations).rule_results)
                 = Len(clauses[Len(evaluations)].validation_rules)

\* the reflection reply of a clause could not be parsed
C9_Witness ==
    /\ failure = [stage |-> "reflect", err |-> "JSONDecodeError"]
    /\ llm_calls = <<"cot", "reflect">>
    /\ Last(evaluations).rule_results # <<>>

C10_Structure ==
    /\ Len(evaluations) <= Len(clauses)
    /\ \A j \in DOMAIN evaluations : evaluations[j].clause_id = clauses[j].clause_id
    /\ pc = "report" => Len(evaluations) = Len(clauses)
    /\ pc \in {"retrieve", "cot", "reflect", "revise"} => Len(evaluations) < Len(clauses)

C10_Step ==
    /\ \/ evaluations' = evaluations
       \/ evaluations' = <<>>
       \/ /\ Len(evaluations') = Len(evaluations) + 1
          /\ SubSeq(evaluations', 1, Len(evaluations)) = evaluations
    /\ (pc = "retrieve" /\ pc' = "cot") =>
          /\ llm_calls' = <<>> /\ rule_calls' = 0 /\ failure' = None
          /\ cot_result' = None /\ reflection_result' = None /\ final_result' = None
    /\ pc = "report" =>
          \E rid \in DOMAIN compliance_reports' :
              compliance_reports'[rid].evaluations = evaluations

C10_Failure ==
    (ClauseDone /\ failure # None) =>
        /\ Last(evaluations).final_status = NOT_SUPPORTED
        /\ Last(evaluations).llm_evaluation.status = NOT_SUPPORTED
        /\ Last(evaluations).llm_evaluation.confidence = RZero
        /\ failure.stage = "retrieve" =>
              /\ Last(evaluations).final_confidence = RZero
              /\ Last(evaluations).rule_results = <<>>
        /\ failure.stage \in LLMStages =>
              /\ Last(evaluations).final_confidence = RZero
                    <=> \A i \in DOMAIN Last(evaluations).rule_results :
                            ~Last(evaluations).rule_results[i].passed
              /\ RLeq(Last(evaluations).final_confidence, Rat(13, 20))

RuleCheck(i) == _validate_single_rule(f_in.rules[i], JoinSpace(f_in.evidence))

KnownRuleTypes == {"numeric", "temporal", "keyword", "field_presence"}

\* C11: validate_rules never raises; it returns one result per rule, in
\* order and with the rule's id; a rule whose check raises or whose type is
\* unknown gives triggered=false, passed=false; and the result of a rule is
\* what the rule gives when it is validated alone on the same evidence.
C11_NeverRaises ==
    f_out # None =>
        /\ Len(f_out.out) = Len(f_in.rules)
        /\ \A i \in DOMAIN f_out.out :
              /\ ~HasRaised(f_out.out[i])
              /\ f_out.out[i].rule_id = f_in.rules[i].rule_id
              /\ (HasRaised(RuleCheck(i)) \/ f_in.rules[i].rule_type \notin KnownRuleTypes)
                     => ~f_out.out[i].triggered /\ ~f_out.out[i].passed
              /\ f_out.out[i] = validate_rules(<< f_in.rules[i] >>, f_in.evidence)[1]

\* a rule whose check raised TypeError stands next to a rule that passed
C11_Witness ==
    /\ f_out # None
    /\ Len(f_out.out) = 2
    /\ HasRaised(RuleCheck(1))
    /\ ~f_out.out[1].triggered
    /\ f_out.out[2].triggered /\ f_out.out[2].passed

\* the positions of the 4-digit tokens 19xx / 20xx of a text
YearTokens(t) ==
    {p \in 1..(Len(t) - 3) :
        /\ \A k \in 0..3 : t[p + k] \in Digits
        /\ << t[p], t[p + 1] >> \in { <<"1", "9">>, <<"2", "0">> }
        /\ WordBoundary(t, p) /\ WordBoundary(t, p + 4)}

HasYearWithin(t, min_year, max_year) ==
    \E p \in YearTokens(t) :
        LET y == DigitsToNat(SubSeq(t, p, p + 3))
        IN  min_year <= y /\ y <= max_year

\* C12 as stated: a temporal rule of format year is triggered, and passes
\* exactly when the evidence holds a 4-digit token 19xx / 20xx whose value
\* lies within [min_year, max_year] (defaults 1900 and the current year).
C12_Claim ==
    f_out # None =>
        \A i \in DOMAIN f_out.out :
            f_in.rules[i].rule_type = "temporal" =>
                /\ f_out.out[i].triggered
                /\ f_out.out[i].passed <=>
                      HasYearWithin(JoinSpace(f_in.evidence),
                                    Get(f_in.rules[i].parameters, "min_year", Num(1900)).v,
                                    Get(f_in.rules[i].parameters, "max_year", Num(CurrentYear)).v)

LabelDocumentIds == {l.document_id : l \in LabelPool}
LabelClauseIds   == {l.clause_id : l \in LabelPool}

\* the label evaluate_accuracy joins to an evaluation of clause c for document d
JoinedLabel(gt, d, c) ==
    LET joined == JoinWithTruth(gt, << [clause_id |-> c] >>, d)
    IN  IF joined = <<>> THEN None ELSE joined[1][2]

\* the positions in a batch of the labels of exactly the pair (d, c)
ExactLabels(labels, d, c) ==
    {i \in DOMAIN labels : labels[i].document_id = d /\ labels[i].clause_id = c}

C13_Step ==
    \A labels \in LabelBatches :
        AddGroundTruth(labels) =>
            \A d \in LabelDocumentIds, c \in LabelClauseIds :
                JoinedLabel(ground_truth', d, c) =
                    IF ExactLabels(labels, d, c) # {}
                    THEN labels[CHOOSE i \in ExactLabels(labels, d, c) :
                                    \A j \in ExactLabels(labels, d, c) : j <= i]
                    ELSE JoinedLabel(ground_truth, d, c)

\* C13 as stated: the store is keyed by the pair (document_id, clause_id):
\* an add_ground_truth request changes the label joined to (d, c) to the
\* last label of the batch with exactly that pair, and leaves it alone when
\* the batch has no label of that pair.
C13_Claim == [][C13_Step]_vars

\* the response to a metrics query answered with AccuracyMetrics
IsMetrics(r) == r # None /\ r.status_code = 200 /\ "metrics" \in DOMAIN r.body

\* the joined set of the report the last metrics query was about
JoinedOfResponse ==
    JoinWithTruth(ground_truth, compliance_reports[response.body.report_id].evaluations,
                  compliance_reports[response.body.report_id].document_id)

\* C16: when no evaluation joins a label, evaluate_accuracy returns the
\* zero-metrics sentinel: all rates 0.0 and calibration error 1.0.
C16_ZeroMetrics ==
    (IsMetrics(response) /\ JoinedOfResponse = <<>>) =>
        /\ response.body.metrics.retrieval_recall_at_k = RZero
        /\ response.body.metrics.llm_precision = RZero
        /\ response.body.metrics.llm_recall = RZero
        /\ response.body.metrics.llm_f1_score = RZero
        /\ response.body.metrics.rule_validation_precision = RZero
        /\ response.body.metrics.confidence_calibration_error = ROne

\* labels are stored, none of them for the evaluations of the queried report
C16_Witness ==
    /\ IsMetrics(response)
    /\ JoinedOfResponse = <<>>
    /\ ground_truth # NoLabels
    /\ compliance_reports[response.body.report_id].evaluations # <<>>

\* C17 as stated: the metrics query for an existing report returns the
\* self-benchmark shape when no label matches an evaluation of the report,
\* and AccuracyMetrics when at least one matches.
C17_Claim ==
    (response # None /\ response.status_code = 200 /\ "report_id" \in DOMAIN response.body) =>
        IF JoinedOfResponse = <<>>
        THEN "self_benchmark" \in DOMAIN response.body
        ELSE "metrics" \in DOMAIN response.body

C18_Case ==
    /\ IsMetrics(response)
    /\ JoinedOfResponse # <<>>
    /\ \A i \in DOMAIN JoinedOfResponse :
          /\ Correct(JoinedOfResponse[i])
          /\ JoinedOfResponse[i][1].final_confidence = ROne

\* C18: when every joined evaluation is correct with confidence 1.0, the
\* confidence calibration error is 0.0.
C18_Calibration ==
    C18_Case => response.body.metrics.confidence_calibration_error = RZero

C18_Witness == C18_Case /\ response.body.metrics.total_clauses_evaluated = 1

\* the request finds its report and, in it, an evaluation of its clause
Found(report_id, clause_id) ==
    /\ report_id \in DOMAIN compliance_reports
    /\ \E i \in DOMAIN compliance_reports[report_id].evaluations :
          compliance_reports[report_id].evaluations[i].clause_id = clause_id

\* the evaluation of the clause in the report, before and after the step
Target(report_id, clause_id) ==
    compliance_reports[report_id].evaluations[
        FirstIndex(compliance_reports[report_id].evaluations, clause_id)]
TargetAfter(report_id, clause_id) ==
    compliance_reports'[report_id].evaluations[
        FirstIndex(compliance_reports[report_id].evaluations, clause_id)]

C14_Step ==
    \A rid \in ReportIdChoices, c \in ClauseIds, st \in ComplianceStatus,
       r \in OverrideReasons :
        OverrideClauseEvaluation(rid, c, st, r) =>
            IF Found(rid, c)
            THEN /\ response'.status_code = 200
                 /\ response'.body.old_status = Target(rid, c).final_status
                 /\ response'.body.new_status = st
                 /\ TargetAfter(rid, c).final_status = st
            ELSE /\ response'.status_code = 404
                 /\ compliance_reports' = compliance_reports

\* C14: an override request for a report that is not stored, or for a clause
\* the report has no evaluation of, ends in a not-found error and leaves the
\* store unchanged; a request that finds both sets the evaluation's
\* final_status to new_status and returns the status it had before as
\* old_status.
C14_NotFound == [][C14_Step]_vars

\* a request on a stored report named a clause the report does not evaluate
C14_Witness ==
    /\ compliance_reports # NoReports
    /\ response = HTTPException(404, "Clause evaluation not found")

\* the evaluation was set by a manual override
ManuallyOverridden(e) ==
    /\ e.override_applied
    /\ e.override_reason # None
    /\ e.override_reason.v[1] = "Manual override: "

C15_Step ==
    \A rid \in DOMAIN compliance_reports :
        \A i \in DOMAIN compliance_reports[rid].evaluations :
            ManuallyOverridden(compliance_reports[rid].evaluations[i]) =>
                /\ compliance_reports'[rid].evaluations[i].final_status
                      = compliance_reports[rid].evaluations[i].final_status
                /\ compliance_reports'[rid].evaluations[i].override_applied
                /\ compliance_reports'[rid].evaluations[i].override_reason
                      = compliance_reports[rid].evaluations[i].override_reason

\* C15 as stated: once a stored evaluation has been set by a manual
\* override, a further override request does not change its final_status,
\* override_applied and override_reason again.
C15_Claim == [][C15_Step]_vars

C19_Step ==
    /\ f_in' = f_in
    /\ UNCHANGED <<storevars, runvars, clausevars, apivars>>
    /\ f_out # None => f_out' = f_out

SummaryOf(evals, s) ==
    /\ s.total_clauses = Len(evals)
    /\ s.supported + s.partial + s.not_supported + s.inferred = s.total_clauses
    /\ \A st \in ComplianceStatus :
          s[st] = Cardinality({i \in DOMAIN evals : evals[i].final_status = st})
    /\ RMul(s.compliance_rate, RInt(Len(evals))) = RInt(s.supported + s.inferred)
    /\ RMul(s.average_confidence, RInt(Len(evals)))
          = RSum([i \in DOMAIN evals |-> evals[i].final_confidence])
    /\ s.overrides_applied = Cardinality({i \in DOMAIN evals : evals[i].override_applied})
    /\ evals = <<>> => s.compliance_rate = RZero /\ s.average_confidence = RZero

\* C20: _generate_summary returns status counts that sum to total_clauses,
\* compliance_rate = (supported + inferred) / total, average_confidence =
\* the mean of the final confidences and overrides_applied = the number of
\* evaluations with override_applied; for the empty list both rates are 0.
\* It holds of the list evaluate_document has built at every point of a
\* run, and of the summary stored with a report when the report is stored.
C20_Summary ==
    /\ SummaryOf(evaluations, _generate_summary(evaluations))
    /\ SummaryOf(<<>>, _generate_summary(<<>>))
    /\ \A rid \in DOMAIN compliance_reports :
          overrides_done = 0 =>
              SummaryOf(compliance_reports[rid].evaluations, compliance_reports[rid].summary)

\* a stored report of two evaluations with different confidences, one of
\* them overridden by a mandatory rule
C20_Witness ==
    \E rid \in DOMAIN compliance_reports :
        /\ overrides_done = 0
        /\ compliance_reports[rid].summary.total_clauses = 2
        /\ compliance_reports[rid].summary.overrides_applied = 1
        /\ compliance_reports[rid].evaluations[1].final_confidence
              # compliance_reports[rid].evaluations[2].final_confidence
        /\ compliance_reports[rid].summary.supported = 1

\* the rule results of the fusion call hold a triggered, failed result of a
\* mandatory rule of the clause
FusedMandatoryFailure ==
    \E i \in DOMAIN f_in.rule_results :
        /\ f_in.rule_results[i].triggered
        /\ ~f_in.rule_results[i].passed
        /\ \E j \in DOMAIN f_in.clause.validation_rules :
              /\ f_in.clause.validation_rules[j].rule_id = f_in.rule_results[i].rule_id
              /\ f_in.clause.validation_rules[j].mandatory

\* C21: the fused status differs from the reasoning status exactly when a
\* triggered, failed, mandatory rule exists and the reasoning status is
\* supported, and it is then partial; a reasoning status of inferred or
\* not_supported is returned unchanged with override_applied = false even
\* when mandatory rules fail; override_applied = true implies a fused status
\* of partial.
C21_StatusChange ==
    f_out # None =>
        /\ (f_out.final_status # f_in.llm_eval.status)
              <=> (FusedMandatoryFailure /\ f_in.llm_eval.status = SUPPORTED)
        /\ f_out.final_status # f_in.llm_eval.status => f_out.final_status = PARTIAL
        /\ f_in.llm_eval.status \in {INFERRED, NOT_SUPPORTED} =>
              /\ f_out.final_status = f_in.llm_eval.status
              /\ ~f_out.override_applied
              /\ f_out.override_reason = None
        /\ f_out.override_applied => f_out.final_status = PARTIAL

\* fusion has returned inferred for a reasoning status of inferred although
\* a mandatory rule failed
C21_Witness ==
    /\ f_out # None
    /\ FusedMandatoryFailure
    /\ f_in.llm_eval.status = INFERRED
    /\ f_out.final_status = INFERRED

\* a fusion call has returned for a reasoning status of not_supported with a
\* confidence in [0,1], at least one rule result, and every triggered rule
\* passed
C22_Case ==
    /\ f_out # None
    /\ f_in.llm_eval.status = NOT_SUPPORTED
    /\ InUnitInterval(f_in.llm_eval.confidence)
    /\ f_in.rule_results # <<>>
    /\ \A i \in DOMAIN f_in.rule_results :
          f_in.rule_results[i].triggered => f_in.rule_results[i].passed

\* the confidence carried into the blending step, recovered from the result:
\* final_confidence = (carried + rule_pass_rate) / 2
C22_Carried == RSub(RMul(RInt(2), f_out.final_confidence), C1_PassRate)

\* C22 as stated: when the reasoning status is not_supported, a rule result
\* exists and every triggered rule passed, the confidence carried into the
\* blending step is max(0.3, c - 0.2) and never exceeds the reasoning
\* confidence c, for every c in [0,1].
C22_Claim ==
    C22_Case =>
        /\ C22_Carried = RMax(Rat(3, 10), RSub(f_in.llm_eval.confidence, Rat(2, 10)))
        /\ RLeq(C22_Carried, f_in.llm_eval.confidence)

\* the bins the binning is said to have: [0,0.2), [0.2,0.4), [0.4,0.6),
\* [0.6,0.8) and the closed [0.8,1.0]
C23_InBin(confidence, i) ==
    /\ RLeq(Rat(i - 1, 5), confidence)
    /\ IF i = 5 THEN RLeq(confidence, ROne) ELSE RLt(confidence, Rat(i, 5))

C23_Members(ewt, i) == {k \in DOMAIN ewt : C23_InBin(ewt[k][1].final_confidence, i)}

\* |bin midpoint - fraction with final_status = expected_status| times the
\* number of members, 0 for an empty bin
C23_WeightedError(ewt, i) ==
    IF C23_Members(ewt, i) = {} THEN RZero
    ELSE RMul(RAbs(RSub(Rat(2 * i - 1, 10),
                        Rat(Cardinality({k \in C23_Members(ewt, i) : Correct(ewt[k])}),
                            Cardinality(C23_Members(ewt, i))))),
              RInt(Cardinality(C23_Members(ewt, i))))

C23_Holds(ewt, error) ==
    /\ \A k \in DOMAIN ewt :
          InUnitInterval(ewt[k][1].final_confidence) =>
              Cardinality({i \in 1..5 : k \in BinData(ewt, i)}) = 1
    /\ (\A k \in DOMAIN ewt : InUnitInterval(ewt[k][1].final_confidence)) =>
          /\ RSum([i \in 1..5 |-> RInt(Cardinality(BinData(ewt, i)))]) = RInt(Len(ewt))
          /\ RMul(error, RInt(Len(ewt))) = RSum([i \in 1..5 |-> C23_WeightedError(ewt, i)])

\* C23 as stated: every joined evaluation with final_confidence in [0,1] is
\* placed in exactly one of the five bins, the top bin being closed so that
\* a confidence of exactly 1.0 is counted; the per-bin counts sum to the size
\* of the joined set, and the calibration error is the count-weighted mean
\* over non-empty bins of |bin midpoint - fraction with final_status =
\* expected_status|.
C23_Claim ==
    (IsMetrics(response) /\ JoinedOfResponse # <<>>) =>
        C23_Holds(JoinedOfResponse, response.body.metrics.confidence_calibration_error)

\* the joined evaluations with override_applied = true
C24_Overrides(ewt) == {i \in DOMAIN ewt : ewt[i][1].override_applied}

\* the value is the fraction of the overridden joined evaluations whose
\* final_status equals the expected_status, 1.0 when there is none
C24_Precision(ewt, precision) ==
    IF C24_Overrides(ewt) = {} THEN precision = ROne
    ELSE RMul(precision, RInt(Cardinality(C24_Overrides(ewt))))
            = RInt(Cardinality({i \in C24_Overrides(ewt) : Correct(ewt[i])}))

\* C24 as stated: rule_validation_precision returned by evaluate_accuracy is
\* the fraction of the joined evaluations with override_applied = true whose
\* final_status equals the expected_status, and 1.0 whenever there is no
\* override among the evaluations being scored.
C24_Original ==
    IsMetrics(response) =>
        C24_Precision(JoinedOfResponse, response.body.metrics.rule_validation_precision)

\* C24 (amended): for a non-empty joined set rule_validation_precision is
\* the fraction of the overridden joined evaluations that are correct, and
\* 1.0 when none is overridden; for an empty joined set it is the 0.0 of the
\* zero-metrics sentinel, overrides or not.
C24_Amended ==
    IsMetrics(response) =>
        IF JoinedOfResponse = <<>>
        THEN response.body.metrics.rule_validation_precision = RZero
        ELSE C24_Precision(JoinedOfResponse,
                           response.body.metrics.rule_validation_precision)

\* a metrics query whose joined set holds no override and a wrong evaluation
C24_Witness ==
    /\ IsMetrics(response)
    /\ JoinedOfResponse # <<>>
    /\ C24_Overrides(JoinedOfResponse) = {}
    /\ \E i \in DOMAIN JoinedOfResponse : ~Correct(JoinedOfResponse[i])
    /\ response.body.metrics.rule_validation_precision = ROne

\* the joined evaluations whose predicted and expected compliance are as
\* given, compliant meaning a status of supported or inferred
C25_Cell(ewt, predicted, expected) ==
    {i \in DOMAIN ewt :
        /\ (ewt[i][1].final_status \in {SUPPORTED, INFERRED}) = predicted
        /\ (ewt[i][2].expected_status \in {SUPPORTED, INFERRED}) = expected}

C25_TP(ewt) == Cardinality(C25_Cell(ewt, TRUE, TRUE))
C25_FP(ewt) == Cardinality(C25_Cell(ewt, TRUE, FALSE))
C25_FN(ewt) == Cardinality(C25_Cell(ewt, FALSE, TRUE))
C25_TN(ewt) == Cardinality(C25_Cell(ewt, FALSE, FALSE))

\* value = n / d, and 0 when d = 0
C25_Ratio(value, n, d) ==
    IF d = 0 THEN value = RZero ELSE RMul(value, RInt(d)) = RInt(n)

C25_Holds(ewt, m) ==
    /\ \A i \in DOMAIN ewt :
          Cardinality({c \in BOOLEAN \X BOOLEAN : i \in C25_Cell(ewt, c[1], c[2])}) = 1
    /\ C25_TP(ewt) + C25_FP(ewt) + C25_FN(ewt) + C25_TN(ewt) = Len(ewt)
    /\ C25_Ratio(m.llm_precision, C25_TP(ewt), C25_TP(ewt) + C25_FP(ewt))
    /\ C25_Ratio(m.llm_recall, C25_TP(ewt), C25_TP(ewt) + C25_FN(ewt))
    /\ IF RAdd(m.llm_precision, m.llm_recall) = RZero
       THEN m.llm_f1_score = RZero
       ELSE RMul(m.llm_f1_score, RAdd(m.llm_precision, m.llm_recall))
               = RMul(RInt(2), RMul(m.llm_precision, m.llm_recall))
    /\ InUnitInterval(m.llm_precision)
    /\ InUnitInterval(m.llm_recall)
    /\ InUnitInterval(m.llm_f1_score)
    /\ m.total_clauses_evaluated = Len(ewt)

\* C25: for a non-empty joined set each joined evaluation is counted in
\* exactly one of TP / FP / FN / TN (compliant = supported or inferred on
\* both sides), the four counts sum to the joined count, precision =
\* TP / (TP + FP), recall = TP / (TP + FN), F1 = 2PR / (P + R), each 0 when
\* its denominator is 0 and each within [0,1], and total_clauses_evaluated
\* is the joined count.
C25_Confusion ==
    (IsMetrics(response) /\ JoinedOfResponse # <<>>) =>
        C25_Holds(JoinedOfResponse, response.body.metrics)

\* a joined set of two with a true positive made of an inferred status and
\* a false negative: precision 1, recall 1/2, F1 2/3
C25_Witness ==
    /\ IsMetrics(response)
    /\ Len(JoinedOfResponse) = 2
    /\ JoinedOfResponse[1][1].final_status = INFERRED
    /\ response.body.metrics.llm_precision = ROne
    /\ response.body.metrics.llm_recall = Rat(1, 2)
    /\ response.body.metrics.llm_f1_score = Rat(2, 3)

\* the override requests on the evaluation of the clause in the report whose
\* handler has run and applied the override
C26_Writers(report_id, clause_id) ==
    {k \in DOMAIN inflight :
        /\ inflight[k].request.kind = "override"
        /\ inflight[k].request.report_id = report_id
        /\ inflight[k].request.clause_id = clause_id
        /\ inflight[k].response # None
        /\ inflight[k].response.status_code = 200}

\* the writer that ran last, and the writers that ran before writer k
C26_Last(writers) ==
    CHOOSE k \in writers : \A j \in writers : inflight[j].served <= inflight[k].served
C26_Earlier(writers, k) == {j \in writers : inflight[j].served < inflight[k].served}

\* the record is what the writers leave behind when run one after the other
\* in the order in which they were served
C26_Serial(e, writers) ==
    /\ writers # {} =>
          /\ e.final_status = inflight[C26_Last(writers)].request.new_status
          /\ e.override_applied
          /\ e.override_reason
                = Str(<<"Manual override: ">> \o inflight[C26_Last(writers)].request.reason)
    /\ \A k \in writers :
          /\ inflight[k].response.body.new_status = inflight[k].request.new_status
          /\ C26_Earlier(writers, k) # {} =>
                inflight[k].response.body.old_status
                   = inflight[C26_Last(C26_Earlier(writers, k))].request.new_status

C26_LastWriterWins ==
    \A rid \in DOMAIN compliance_reports :
        \A i \in DOMAIN compliance_reports[rid].evaluations :
            C26_Serial(compliance_reports[rid].evaluations[i],
                       C26_Writers(rid, compliance_reports[rid].evaluations[i].clause_id))

\* a handler that applies an override returns the status the record had
\* when the handler started, and leaves its own status and reason in it
C26_Step ==
    \A k \in DOMAIN inflight :
        (/\ inflight[k].request.kind = "override"
         /\ inflight[k].response = None
         /\ inflight'[k].response # None
         /\ inflight'[k].response.status_code = 200) =>
            /\ inflight'[k].response.body.old_status
                  = Target(inflight[k].request.report_id,
                           inflight[k].request.clause_id).final_status
            /\ TargetAfter(inflight[k].request.report_id,
                           inflight[k].request.clause_id)
                  = [Target(inflight[k].request.report_id, inflight[k].request.clause_id)
                       EXCEPT !.final_status = inflight[k].request.new_status,
                              !.override_applied = TRUE,
                              !.override_reason =
                                  Str(<<"Manual override: ">> \o inflight[k].request.reason)]

\* C26: override requests in flight together on the same stored evaluation
\* resolve last-writer-wins without tearing: whatever the order in which
\* they are accepted and served, the record equals the result of running
\* them one after the other in the order served, its final_status and
\* override_reason both come from the request served last, and each
\* request's old_status is the status it replaced.
C26_Overrides == [](C26_LastWriterWins) /\ [][C26_Step]_vars

\* two requests on the same evaluation were in flight together and both
\* were served, the one that arrived later first
C26_Witness ==
    \E j, k \in C26_Writers(ReportId("doc1", "GRI", 0), "cA") :
        /\ j < k
        /\ inflight[k].served < inflight[j].served
        /\ inflight[j].request.new_status # inflight[k].request.new_status
        /\ inflight[j].response.body.old_status = inflight[k].request.new_status

\* the label batches whose handler has run, and their labels as
\* (request, position) pairs
C27_Batches ==
    {k \in DOMAIN inflight : inflight[k].request.kind = "labels" /\ inflight[k].response # None}

C27_Writes(key) ==
    {w \in C27_Batches \X (1..MaxBatch) :
        /\ w[2] \in DOMAIN inflight[w[1]].request.labels
        /\ GroundTruthKey(inflight[w[1]].request.labels[w[2]].document_id,
                          inflight[w[1]].request.labels[w[2]].clause_id) = key}

\* the write of the key that comes last when the batches run one after the
\* other in the order served
C27_LastWrite(key) ==
    CHOOSE w \in C27_Writes(key) :
        \A v \in C27_Writes(key) :
            \/ inflight[v[1]].served < inflight[w[1]].served
            \/ v[1] = w[1] /\ v[2] <= w[2]

C27_Keys ==
    UNION {{GroundTruthKey(inflight[k].request.labels[i].document_id,
                           inflight[k].request.labels[i].clause_id) :
               i \in DOMAIN inflight[k].request.labels} :
           k \in {j \in DOMAIN inflight : inflight[j].request.kind = "labels"}}

\* the ground-truth map holds every label of every batch served, none of a
\* batch not yet served, and under each key the label written last
C27_WholeBatches ==
    /\ DOMAIN ground_truth = {key \in C27_Keys : C27_Writes(key) # {}}
    /\ \A key \in DOMAIN ground_truth :
          ground_truth[key]
             = inflight[C27_LastWrite(key)[1]].request.labels[C27_LastWrite(key)[2]]

\* a step that serves a metrics query leaves the map alone and scores the
\* report against the map as it is; a step that serves a batch is one step
C27_Step ==
    \A k \in DOMAIN inflight :
        (inflight[k].response = None /\ inflight'[k].response # None) =>
            /\ \A j \in DOMAIN inflight \ {k} : inflight'[j] = inflight[j]
            /\ inflight[k].request.kind = "metrics" =>
                  /\ ground_truth' = ground_truth
                  /\ inflight[k].request.report_id \in DOMAIN compliance_reports =>
                        inflight'[k].response.body.metrics =
                            evaluate_accuracy(
                                ground_truth,
                                compliance_reports[inflight[k].request.report_id].evaluations,
                                compliance_reports[inflight[k].request.report_id].document_id)

\* C27: ground-truth writers and readers are serialized: a label batch is
\* stored whole before any other handler runs, two batches do not
\* interleave, and a metrics query scores the report against one snapshot of
\* the map that holds all or none of each batch's labels.
C27_Serialized == [](C27_WholeBatches) /\ [][C27_Step]_vars

\* a metrics query was served between two label batches that were in flight
\* with it
C27_Witness ==
    \E q \in DOMAIN inflight : \E b1, b2 \in C27_Batches :
        /\ inflight[q].request.kind = "metrics"
        /\ IsMetrics(inflight[q].response)
        /\ inflight[b1].served < inflight[q].served
        /\ inflight[q].served < inflight[b2].served
        /\ Len(inflight[b1].request.labels) = 2
        /\ inflight[q].response.body.metrics.total_clauses_evaluated = 2
        /\ inflight[q].response.body.metrics.confidence_calibration_error # ROne

\* the status a status field of the final stage output stands for: the enum
\* value whose name it spells in any letter case, not_supported otherwise
C28_Expected(sv) ==
    IF sv.t # "str" THEN NOT_SUPPORTED
    ELSE CASE Lower(sv.v) = <<"s", "u", "p", "p", "o", "r", "t", "e", "d">> -> SUPPORTED
           [] Lower(sv.v) = <<"p", "a", "r", "t", "i", "a", "l">>           -> PARTIAL
           [] Lower(sv.v) = <<"i", "n", "f", "e", "r", "r", "e", "d">>      -> INFERRED
           [] OTHER -> NOT_SUPPORTED

\* the four enum values
C28_Enum == {"supported", "partial", "not_supported", "inferred"}

\* C28: the status of a reasoning result is always one of the four enum
\* values: the status text of the final stage output (the revision if there
\* was one, else the chain of thought) is matched case-insensitively against
\* the four names, a missing, unrecognized or non-text status yields
\* not_supported, and no other value reaches a ClauseEvaluation.
C28_Status ==
    /\ \A e \in RunEvaluations \cup StoredEvaluations :
          /\ e.final_status \in C28_Enum
          /\ e.llm_evaluation # None => e.llm_evaluation.status \in C28_Enum
    /\ (ClauseDone /\ final_result # None /\ Last(evaluations).llm_evaluation # None) =>
          /\ failure = None =>
                Last(evaluations).llm_evaluation.status = C28_Expected(final_result.status)
          /\ C28_Expected(final_result.status) = NOT_SUPPORTED =>
                Last(evaluations).llm_evaluation.status = NOT_SUPPORTED

\* a reasoning result built from a final stage output whose status is a
\* text that names no enum value
C28_Witness ==
    /\ ClauseDone
    /\ final_result # None
    /\ failure = None
    /\ final_result.status = Str(MaybeText)
    /\ Last(evaluations).llm_evaluation # None
    /\ Last(evaluations).llm_evaluation.status = NOT_SUPPORTED
    /\ Last(evaluations).final_status = NOT_SUPPORTED

\* C29 as stated: in every reachable state of the report store, each stored
\* report's summary (per-status counts, compliance_rate, overrides_applied)
\* equals the summary recomputed from the report's current evaluations,
\* manual overrides included.
C29_Claim ==
    \A rid \in DOMAIN compliance_reports :
        SummaryOf(compliance_reports[rid].evaluations, compliance_reports[rid].summary)

\* a run that ends adds one report to the store and leaves every report
\* stored before as it was; no other step removes a report
C30_Step ==
    /\ \A rid \in DOMAIN compliance_reports : rid \in DOMAIN compliance_reports'
    /\ (pc = "report" /\ pc' = "idle") =>
          /\ Cardinality(DOMAIN compliance_reports')
                = Cardinality(DOMAIN compliance_reports) + 1
          /\ \A rid \in DOMAIN compliance_reports :
                compliance_reports'[rid] = compliance_reports[rid]

\* C30 as stated: every successful evaluation run adds a new report to the
\* report store without replacing an existing one: two runs obtain distinct
\* report ids, even for the same document and framework close together in
\* time, so the number of stored reports grows by one per run and reports
\* stored before, with their manual overrides, are not lost.
C30_Claim == [][C30_Step]_vars

====
